---------------------------- MODULE Spec2Model ----------------------------
(***************************************************************************)
(* Instance lifecycle and namespace-scoped resource reconciliation of the  *)
(* Argo CD operator: the finalizer-guarded create / steady-state / delete  *)
(* passes of one ArgoCD instance, the namespace watch predicate and the    *)
(* cluster-secret namespace list.                                          *)
(*                                                                         *)
(* One instance ("demo", living in namespace ns1) is modelled in full.     *)
(* ns2 is a namespace that can be managed by it; ns3 is the namespace of   *)
(* another instance and only occurs as a managed-by label value.           *)
(***************************************************************************)
EXTENDS Naturals, Sequences, FiniteSets

(***************************************************************************)
(* Bounds of the model.                                                    *)
(***************************************************************************)
\* incidents of one behaviour: API calls that fail (injected errors), and
\* label edits and namespace deletions the users make
MaxIncidents == 2
\* entries of an arbitrary prior `namespaces` value (SpecSecret)
MaxEntries == 2
\* resource versions of the instance during one exercise of the status update
MaxVersion == 3
\* the tries retry.RetryOnConflict makes before it gives up (retry.DefaultRetry)
RetrySteps == 2

(***************************************************************************)
(* Names.                                                                  *)
(***************************************************************************)
OwnNS == "ns1"
Namespaces == {"ns1", "ns2"}
Owners == {"ns1", "ns3"}
NsNames == {"ns1", "ns2", "ns3"}
NoLabel == "<absent>"
ArgoCDDeletionFinalizer == "argoproj.io/finalizer"
ForeignFinalizer == "test-finalizer"
ClusterComponents == {"argocd-application-controller", "argocd-server"}

(***************************************************************************)
(* Strings are sequences of characters, so that Split, TrimSpace, Sort and *)
(* Join are computed and not assumed.                                      *)
(***************************************************************************)
Str(n) ==
    CASE n = "ns1" -> <<"n", "s", "1">>
      [] n = "ns2" -> <<"n", "s", "2">>
      [] n = "ns3" -> <<"n", "s", "3">>

Byte(c) ==
    CASE c = " " -> 32
      [] c = "," -> 44
      [] c = "1" -> 49
      [] c = "2" -> 50
      [] c = "3" -> 51
      [] c = "n" -> 110
      [] c = "s" -> 115

\* a < b in Go's string order (byte-wise lexicographic)
RECURSIVE StrLess(_, _)
StrLess(a, b) ==
    IF b = <<>> THEN FALSE
    ELSE IF a = <<>> THEN TRUE
    ELSE IF Byte(Head(a)) # Byte(Head(b)) THEN Byte(Head(a)) < Byte(Head(b))
    ELSE StrLess(Tail(a), Tail(b))

\* strings.Split(s, ",")
RECURSIVE Split(_)
Split(s) ==
    IF \A i \in 1..Len(s) : s[i] # "," THEN <<s>>
    ELSE LET k == CHOOSE i \in 1..Len(s) :
                      s[i] = "," /\ \A j \in 1..(i - 1) : s[j] # ","
         IN  <<SubSeq(s, 1, k - 1)>> \o Split(SubSeq(s, k + 1, Len(s)))

\* strings.TrimSpace(s)
RECURSIVE TrimSpace(_)
TrimSpace(s) ==
    IF s = <<>> THEN s
    ELSE IF Head(s) = " " THEN TrimSpace(Tail(s))
    ELSE IF s[Len(s)] = " " THEN TrimSpace(SubSeq(s, 1, Len(s) - 1))
    ELSE s

\* strings.Join(list, ",")
RECURSIVE Join(_)
Join(list) ==
    IF list = <<>> THEN <<>>
    ELSE IF Len(list) = 1 THEN list[1]
    ELSE list[1] \o <<",">> \o Join(Tail(list))

\* insertion of x into the sorted list l, after the entries equal to it
RECURSIVE Insert(_, _)
Insert(l, x) ==
    IF l = <<>> THEN <<x>>
    ELSE IF StrLess(x, Head(l)) THEN <<x>> \o l
    ELSE <<Head(l)>> \o Insert(Tail(l), x)

\* sort.Strings(list)
RECURSIVE SortStrings(_)
SortStrings(list) ==
    IF list = <<>> THEN <<>>
    ELSE Insert(SortStrings(SubSeq(list, 1, Len(list) - 1)), list[Len(list)])


(***************************************************************************)
(* deleteManagedNamespaceFromClusterSecret: the value of the `namespaces`  *)
(* field after the loop over the split list.  `data` is only assigned in   *)
(* an iteration that keeps an entry.                                       *)
(***************************************************************************)
RECURSIVE removeLoop(_, _, _, _)
removeLoop(namespaceList, sourceNS, result, data) ==
    IF namespaceList = <<>> THEN data
    ELSE LET n == TrimSpace(Head(namespaceList))
         IN  IF n = sourceNS
             THEN removeLoop(Tail(namespaceList), sourceNS, result, data)
             ELSE LET r == SortStrings(Append(result, n))
                  IN  removeLoop(Tail(namespaceList), sourceNS, r, Join(r))

namespacesAfterDelete(data, sourceNS) ==
    removeLoop(Split(data), sourceNS, <<>>, data)

\* the trimmed entries of a `namespaces` value
Entries(data) == LET l == Split(data) IN {TrimSpace(l[i]) : i \in 1..Len(l)}

(***************************************************************************)
(* State.                                                                  *)
(***************************************************************************)
VARIABLES
    \* ---- the cluster (API server) ----
    inst,                \* the ArgoCD instance object: exists, deleting, fin
    nsLabel,             \* managed-by label value of each namespace
    nsExists,            \* which namespaces exist
    roles,               \* Roles labelled part-of=argocd: <<namespace, owner>>
    roleBindings,        \* RoleBindings, each referencing the Role of its key
    clusterRoles,        \* ClusterRoles of the instance
    clusterRoleBindings, \* ClusterRoleBindings, each referencing its ClusterRole
    secrets,             \* cluster secret of each owner namespace
    components,          \* owned component resources in the instance namespace
    \* ---- the reconcile worker ----
    queued,              \* the instance key is in the work queue
    rpc,                 \* position of the pass in flight ("idle": none)
    cr,                  \* the copy of the instance fetched by the pass
    crStale,             \* the instance changed after the copy was fetched
    managed,             \* r.ManagedNamespaces (a list: Items)
    idx,                 \* loop index over managed
    stepFailed,          \* an API call of a cleanup step of this pass failed
    finalized,           \* removeDeletionFinalizer has succeeded
    \* ---- the namespace watch (event handler) ----
    nsEvents,            \* namespace events not yet filtered
    ppc,                 \* position of the predicate ("idle": none running)
    pevt,                \* the event being (or last) filtered
    pret,                \* what the predicate returns
    \* ---- environment ----
    incidents,           \* injected API errors and user edits so far
    removeLabelEnv,      \* REMOVE_MANAGED_BY_LABEL_ON_ARGOCD_DELETION = "true"
    secretCall,          \* the last deleteManagedNamespaceFromClusterSecret call
    \* ---- functions exercised on their own ----
    run,                 \* one run of a sequence of per-kind reconcilers
    flags,               \* the process-wide capability flags (*APIFound)
    inspect,             \* one run of InspectCluster
    upd,                 \* one call of UpdateInstanceStatus
    calc,                \* the last setManagedNamespaces call made on its own
    app,                 \* the source namespaces of one instance and their labels
    dep,                 \* the notifications dependents and one call on them
    nsObj,               \* one Namespace object and one label removal on it
    rbacCall             \* the cluster-scoped RBAC and the last cleanup call

clusterVars == <<inst, nsLabel, nsExists, roles, roleBindings, clusterRoles,
                 clusterRoleBindings, secrets, components>>
passVars == <<cr, crStale, managed, idx, stepFailed>>
workerVars == <<queued, rpc, passVars, finalized>>
watchVars == <<nsEvents, ppc, pevt, pret>>
unitVars == <<secretCall, run, flags, inspect, upd, calc, app, dep, nsObj,
              rbacCall>>
envVars == <<incidents, removeLabelEnv, unitVars>>
vars == <<clusterVars, workerVars, watchVars, envVars>>

NoEvent == [kind |-> "none", name |-> "", old |-> NoLabel, new |-> NoLabel]
NoCall == [owner |-> "", source |-> "", present |-> FALSE, before |-> <<>>,
           fail |-> "none", updated |-> FALSE, err |-> FALSE]
NoSecret == [present |-> FALSE, namespaces |-> <<>>]
NoCR == [exists |-> FALSE, deleting |-> FALSE, fin |-> {}]

\* the capabilities InspectCluster probes, in the order it probes them
APIs == <<"prometheus", "route", "template", "version">>
\* the package-level flags before any probe
NoFlags == [a \in {APIs[i] : i \in 1..Len(APIs)} |-> FALSE]
NoRun == [fn |-> "", done |-> <<>>, errs |-> {}, ret |-> "none", err |-> "",
          applicationSet |-> FALSE, sso |-> FALSE, nsDeleting |-> FALSE]
NoInspect == [fn |-> "", pc |-> 0, probed |-> {}, failed |-> {},
              inspectError |-> FALSE, ret |-> "none"]
\* rv, status: the instance on the API server; copy, copyStatus: rsr.Instance
NoUpdate == [pc |-> "none", rv |-> 0, status |-> "Unknown", copy |-> 0,
             copyStatus |-> "Unknown", attempts |-> 0, conflicted |-> {},
             ret |-> "none"]
NoCalc == [namespace |-> "", err |-> FALSE]
\* the namespaces an instance can declare as source namespaces: two that
\* exist and one that does not
AppNamespaces == {"ns2", "ns4"}
DeclarableNamespaces == AppNamespaces \cup {"ns5"}
\* labels: the apps-managed-by label of each namespace; declared:
\* Spec.SourceNamespaces; sourceNamespaces: r.AppManagedNamespaces;
\* managedSource: r.ManagedSourceNamespaces; last: the call that has just
\* returned
NoApp == [labels |-> [n \in AppNamespaces |-> NoLabel], declared |-> {},
          clusterScoped |-> FALSE, sourceNamespaces |-> {},
          managedSource |-> {}, last |-> [fn |-> "", err |-> FALSE]]
\* the objects the notifications controller depends on
Dependents == {"ServiceAccount", "Role", "RoleBinding", "ConfigMap"}
\* present, roleRef: the dependents on the cluster and whether the RoleRef
\* of the RoleBinding is the desired one; enabled: Notifications.Enabled;
\* terminating: the namespace has a deletion timestamp; fn, todo, phase: the
\* running function, the per-kind calls it has still to make and whether the
\* first of them has made its Get; found, foundRef: what that Get saw; sa,
\* role: the pointers the function holds; op, err: the API call that failed
\* and how; swallowed: an error was logged and not returned; ret: "",
\* "running", "nil", "err" or "panic"; origin: the cluster when the function
\* was first called; tracked: no other client has acted since; retried: the
\* call repeats one that returned an error
NoDep == [present |-> [k \in Dependents |-> FALSE], roleRef |-> "desired",
          enabled |-> FALSE, terminating |-> FALSE,
          fn |-> "", todo |-> <<>>, phase |-> "", found |-> FALSE,
          foundRef |-> "desired", sa |-> "nil", role |-> "nil", op |-> "",
          err |-> "", swallowed |-> FALSE, ret |-> "",
          origin |-> [present |-> [k \in Dependents |-> FALSE],
                      roleRef |-> "desired"],
          tracked |-> FALSE, retried |-> FALSE]
\* the label keys of a Namespace: the managed-by label and one of the user's
ArgoCDManagedByLabel == "argocd.argoproj.io/managed-by"
LabelKeys == {ArgoCDManagedByLabel, "team"}
\* exists, obj: the Namespace on the cluster (labels, finalizers,
\* resourceVersion); ns: the copy the operator has read; pc: "" or "got" (the
\* copy is read, the Update not yet made); ret: how the last call on the
\* Namespace ended
NoNsObj == [exists |-> TRUE,
            obj |-> [labels |-> [k \in LabelKeys |-> NoLabel],
                     finalizers |-> {"kubernetes"}, rv |-> 0],
            ns |-> [labels |-> [k \in LabelKeys |-> NoLabel],
                    finalizers |-> {"kubernetes"}, rv |-> 0],
            pc |-> "", ret |-> ""]
\* clusterRoles, clusterRoleBindings: the instances (name, namespace) whose
\* ClusterRoles and ClusterRoleBindings exist; fn, args: the cleanup that has
\* just returned; deleted: it issued a Delete; failed: an API call of it
\* failed; again: it repeats the call before it, which returned nil
NoRBACCall == [clusterRoles |-> {}, clusterRoleBindings |-> {}, fn |-> "",
               args |-> <<>>, deleted |-> FALSE, failed |-> FALSE,
               ret |-> "", again |-> FALSE]
\* none of the functions exercised on their own has run
UnitsIdle ==
    /\ run = NoRun
    /\ flags = NoFlags
    /\ inspect = NoInspect
    /\ upd = NoUpdate
    /\ calc = NoCalc
    /\ app = NoApp
    /\ dep = NoDep
    /\ nsObj = NoNsObj
    /\ rbacCall = NoRBACCall

\* an API call may fail, and a user may edit, while the budget lasts
CanFail == incidents < MaxIncidents

(***************************************************************************)
(* Kubernetes API behaviour the operator relies on.                        *)
(***************************************************************************)
\* an object whose deletion timestamp is set goes once its finalizers are gone
Finalize(i) == IF i.deleting /\ i.fin = {} THEN [i EXCEPT !.exists = FALSE] ELSE i

\* owner references: the garbage collector removes the owned resources of the
\* instance namespace when the instance goes
Collect(i, owned) == IF i.exists THEN owned ELSE {}

\* label-selector List of namespaces with managed-by = namespace, in name order
RECURSIVE listByLabel(_, _)
listByLabel(names, namespace) ==
    IF names = <<>> THEN <<>>
    ELSE (IF nsExists[Head(names)] /\ nsLabel[Head(names)] = namespace
          THEN <<Head(names)>> ELSE <<>>) \o listByLabel(Tail(names), namespace)

NamespaceOrder == <<"ns1", "ns2">>

\* Roles / RoleBindings of a namespace selected by part-of=argocd
ListedRoles(sourceNS) == {r \in roles : r[1] = sourceNS}
ListedRoleBindings(sourceNS) == {b \in roleBindings : b[1] = sourceNS}

Range(list) == {list[i] : i \in 1..Len(list)}

(***************************************************************************)
(* deleteManagedNamespaceFromClusterSecret(ownerNS, sourceNS): the secrets *)
(* after the call and whether it returns an error.  fail names the API     *)
(* call that fails: "none", "list" (List of the secrets) or "update".      *)
(***************************************************************************)
deleteManagedNamespaceFromClusterSecret(ownerNS, sourceNS, fail) ==
    IF fail # "none" \/ ~secrets[ownerNS].present THEN secrets
    ELSE [secrets EXCEPT ![ownerNS].namespaces =
              namespacesAfterDelete(@, Str(sourceNS))]

\* a variant that returns the error of the List only
clusterSecretErrOfList(ownerNS, fail) == fail = "list"

\* whether the call issues an Update: one for each listed secret of the
\* default server that has the namespaces key
clusterSecretUpdated(ownerNS, fail) ==
    fail # "list" /\ secrets[ownerNS].present

clusterSecretErr(ownerNS, fail) ==
    fail = "list" \/ (fail = "update" /\ secrets[ownerNS].present)

SecretFailModes(ownerNS) ==
    {"none"} \cup (IF CanFail
                   THEN {"list"} \cup (IF secrets[ownerNS].present
                                       THEN {"update"} ELSE {})
                   ELSE {})

\* a variant of the first loop that leaves a Role of the instance behind
rolesAfterRecreate(sourceNS, failed) ==
    (roles \ (ListedRoles(sourceNS) \ failed)) \cup {<<sourceNS, OwnNS>>}

\* deleteRBACsForNamespace, first loop: the Roles left when the Delete calls of
\* `failed` return an error (logged, not returned)
rolesAfterDelete(sourceNS, failed) == roles \ (ListedRoles(sourceNS) \ failed)

\* deleteRBACsForNamespace, second loop
roleBindingsAfterDelete(sourceNS, failed) ==
    roleBindings \ (ListedRoleBindings(sourceNS) \ failed)

\* sets of Delete calls that may fail within the budget
FailSets(S) == {F \in SUBSET S : incidents + Cardinality(F) <= MaxIncidents}

(***************************************************************************)
(* Users.                                                                  *)
(***************************************************************************)
LabelChoices(ns) == IF ns = OwnNS THEN {NoLabel, OwnNS} ELSE {NoLabel} \cup Owners

\* kubectl label namespace: add, change or remove the managed-by label
UserLabel(ns, v) ==
    /\ incidents < MaxIncidents
    /\ nsExists[ns]
    /\ v \in LabelChoices(ns)
    /\ v # nsLabel[ns]
    /\ nsLabel' = [nsLabel EXCEPT ![ns] = v]
    /\ nsEvents' = Append(nsEvents, [kind |-> "update", name |-> ns,
                                     old |-> nsLabel[ns], new |-> v])
    /\ incidents' = incidents + 1
    /\ UNCHANGED <<inst, nsExists, roles, roleBindings, clusterRoles,
                   clusterRoleBindings, secrets, components>>
    /\ UNCHANGED <<workerVars, ppc, pevt, pret, removeLabelEnv, unitVars>>

\* kubectl delete namespace: its content goes with it
UserDeleteNamespace(ns) ==
    /\ incidents < MaxIncidents
    /\ ns # OwnNS
    /\ nsExists[ns]
    /\ nsExists' = [nsExists EXCEPT ![ns] = FALSE]
    /\ nsLabel' = [nsLabel EXCEPT ![ns] = NoLabel]
    /\ roles' = roles \ ListedRoles(ns)
    /\ roleBindings' = roleBindings \ ListedRoleBindings(ns)
    /\ nsEvents' = Append(nsEvents, [kind |-> "delete", name |-> ns,
                                     old |-> nsLabel[ns], new |-> NoLabel])
    /\ incidents' = incidents + 1
    /\ UNCHANGED <<inst, clusterRoles, clusterRoleBindings, secrets, components>>
    /\ UNCHANGED <<workerVars, ppc, pevt, pret, removeLabelEnv, unitVars>>

\* kubectl delete argocd: sets the deletion timestamp
UserDeleteInstance ==
    /\ inst.exists
    /\ ~inst.deleting
    /\ inst' = Finalize([inst EXCEPT !.deleting = TRUE])
    /\ components' = Collect(inst', components)
    /\ queued' = TRUE
    /\ crStale' = (rpc # "idle")
    /\ UNCHANGED <<nsLabel, nsExists, roles, roleBindings, clusterRoles,
                   clusterRoleBindings, secrets>>
    /\ UNCHANGED <<rpc, cr, managed, idx, stepFailed, finalized>>
    /\ UNCHANGED <<watchVars, envVars>>

\* an event of an owned or watched resource, or the periodic resync
Resync ==
    /\ ~queued
    /\ queued' = TRUE
    /\ UNCHANGED <<clusterVars, watchVars, envVars>>
    /\ UNCHANGED <<rpc, passVars, finalized>>

(***************************************************************************)
(* The namespace watch: namespaceFilterPredicate runs in the event handler *)
(* of the Namespace informer; an event for which it returns true is mapped *)
(* to the instance key and added to the work queue.                        *)
(***************************************************************************)
\* namespaceResourceMapper: the instance living in the namespace the label names
mapsToInstance(e) == e.new = OwnNS

enqueue(e, ret) == IF ret /\ mapsToInstance(e) THEN TRUE ELSE queued

\* UpdateFunc: where the predicate goes for the event e, <<next position, result>>
UpdateFuncBranch(e) ==
    IF e.new # NoLabel
    THEN IF e.old # NoLabel /\ e.old # e.new
         THEN <<"initClient", TRUE>>
         ELSE <<"idle", TRUE>>
    ELSE IF e.old # NoLabel
         THEN <<"initClient", FALSE>>
         ELSE <<"idle", FALSE>>

\* DeleteFunc: where the predicate goes for the event e
DeleteFuncBranch(e) ==
    IF e.old # NoLabel THEN <<"initClient", FALSE>> ELSE <<"idle", FALSE>>

\* the cleanup that follows initK8sClient
UpdateFuncCleanup == "roles"
DeleteFuncCleanup == "secret"

PredicateBegin(e, branch) ==
    /\ pevt' = e
    /\ nsEvents' = Tail(nsEvents)
    /\ ppc' = branch[1]
    /\ pret' = branch[2]
    /\ queued' = IF branch[1] = "idle" THEN enqueue(e, branch[2]) ELSE queued
    /\ UNCHANGED <<clusterVars, envVars>>
    /\ UNCHANGED <<rpc, passVars, finalized>>

UpdateFunc ==
    /\ ppc = "idle"
    /\ nsEvents # <<>>
    /\ Head(nsEvents).kind = "update"
    /\ PredicateBegin(Head(nsEvents), UpdateFuncBranch(Head(nsEvents)))

DeleteFunc ==
    /\ ppc = "idle"
    /\ nsEvents # <<>>
    /\ Head(nsEvents).kind = "delete"
    /\ PredicateBegin(Head(nsEvents), DeleteFuncBranch(Head(nsEvents)))

initK8sClient ==
    /\ ppc = "initClient"
    /\ \/ /\ ppc' = IF pevt.kind = "delete" THEN DeleteFuncCleanup
                    ELSE UpdateFuncCleanup
          /\ UNCHANGED <<pret, incidents>>
       \/ /\ CanFail
          /\ incidents' = incidents + 1
          /\ ppc' = "idle"
          /\ pret' = FALSE
    /\ UNCHANGED <<clusterVars, workerVars>>
    /\ UNCHANGED <<nsEvents, pevt, removeLabelEnv, unitVars>>

\* deleteRBACsForNamespace(valOld, name): List and Delete of the Roles
PredicateDeleteRoles ==
    /\ ppc = "roles"
    /\ \/ \E failed \in FailSets(ListedRoles(pevt.name)) :
             /\ roles' = rolesAfterDelete(pevt.name, failed)
             /\ incidents' = incidents + Cardinality(failed)
             /\ ppc' = "bindings"
       \/ /\ CanFail
          /\ incidents' = incidents + 1
          /\ ppc' = "secret"
          /\ UNCHANGED roles
    /\ UNCHANGED <<inst, nsLabel, nsExists, roleBindings, clusterRoles,
                   clusterRoleBindings, secrets, components>>
    /\ UNCHANGED <<workerVars, nsEvents, pevt, pret, removeLabelEnv,
                   unitVars>>

\* deleteRBACsForNamespace(valOld, name): List and Delete of the RoleBindings
PredicateDeleteRoleBindings ==
    /\ ppc = "bindings"
    /\ \/ \E failed \in FailSets(ListedRoleBindings(pevt.name)) :
             /\ roleBindings' = roleBindingsAfterDelete(pevt.name, failed)
             /\ incidents' = incidents + Cardinality(failed)
       \/ /\ CanFail
          /\ incidents' = incidents + 1
          /\ UNCHANGED roleBindings
    /\ ppc' = "secret"
    /\ UNCHANGED <<inst, nsLabel, nsExists, roles, clusterRoles,
                   clusterRoleBindings, secrets, components>>
    /\ UNCHANGED <<workerVars, nsEvents, pevt, pret, removeLabelEnv,
                   unitVars>>

\* deleteManagedNamespaceFromClusterSecret(valOld, name), then the predicate
\* returns
PredicateDeleteFromSecret ==
    /\ ppc = "secret"
    /\ \E fail \in SecretFailModes(pevt.old) :
          /\ secrets' = deleteManagedNamespaceFromClusterSecret(pevt.old,
                                                                pevt.name, fail)
          /\ incidents' = IF fail = "none" THEN incidents ELSE incidents + 1
    /\ ppc' = "idle"
    /\ queued' = enqueue(pevt, pret)
    /\ UNCHANGED <<inst, nsLabel, nsExists, roles, roleBindings, clusterRoles,
                   clusterRoleBindings, components>>
    /\ UNCHANGED <<rpc, passVars, finalized>>
    /\ UNCHANGED <<nsEvents, pevt, pret, removeLabelEnv, unitVars>>

(***************************************************************************)
(* The reconcile worker: one pass of the instance key at a time.           *)
(***************************************************************************)
\* a Reconcile that does not look at the deletion timestamp
ReconcileBranchIgnoringDeletion(argocd) ==
    IF ~argocd.exists THEN "idle"
    ELSE IF ArgoCDDeletionFinalizer \notin argocd.fin
         THEN "addDeletionFinalizer" ELSE "setManagedNamespaces"

\* a Reconcile whose delete pass starts at the cluster-scoped RBAC, the
\* namespaced cleanup being left to an earlier pass
ReconcileBranchClusterCleanupOnly(argocd) ==
    IF ~argocd.exists THEN "idle"
    ELSE IF argocd.deleting
         THEN IF ArgoCDDeletionFinalizer \in argocd.fin
              THEN "deleteClusterRoles" ELSE "idle"
         ELSE IF ArgoCDDeletionFinalizer \notin argocd.fin
              THEN "addDeletionFinalizer" ELSE "setManagedNamespaces"

\* Reconcile: where the pass goes for the fetched instance
ReconcileBranch(argocd) ==
    IF ~argocd.exists THEN "idle"
    ELSE IF argocd.deleting
         THEN IF ArgoCDDeletionFinalizer \in argocd.fin
              THEN "deleteManagedNamespaces" ELSE "idle"
         ELSE IF ArgoCDDeletionFinalizer \notin argocd.fin
              THEN "addDeletionFinalizer" ELSE "setManagedNamespaces"

Reconcile ==
    /\ rpc = "idle"
    /\ queued
    /\ queued' = FALSE
    /\ rpc' = ReconcileBranch(inst)
    /\ cr' = IF rpc' = "idle" THEN NoCR ELSE inst
    /\ UNCHANGED <<crStale, managed, idx, stepFailed>>
    /\ UNCHANGED <<clusterVars, watchVars, envVars, finalized>>

\* the pass returns and the worker is free; the key is requeued when asked
passReturns(requeue) ==
    /\ rpc' = "idle"
    /\ queued' = (queued \/ requeue)
    /\ cr' = NoCR
    /\ crStale' = FALSE
    /\ managed' = <<>>
    /\ idx' = 0
    /\ stepFailed' = FALSE

\* the pass ends with an error: the key is requeued
returnErr == passReturns(TRUE)

\* the API call of this step fails with an injected error
injectedErr ==
    /\ CanFail
    /\ incidents' = incidents + 1

removeString(slice, str) == slice \ {str}

\* an addDeletionFinalizer that updates the Instance without the finalizer
appendNothing(finalizers) == finalizers

\* addDeletionFinalizer: append(argocd.Finalizers, ArgoCDDeletionFinalizer)
appendFinalizer(finalizers) == finalizers \cup {ArgoCDDeletionFinalizer}

\* addDeletionFinalizer: Update of the fetched copy; a copy that is no longer
\* current is refused (conflict, or not found)
addDeletionFinalizer ==
    /\ rpc = "addDeletionFinalizer"
    /\ \/ /\ inst.exists /\ ~crStale
          /\ inst' = [inst EXCEPT !.fin = appendFinalizer(cr.fin)]
          /\ cr' = [cr EXCEPT !.fin = appendFinalizer(cr.fin)]
          /\ rpc' = "setManagedNamespaces"
          /\ queued' = TRUE
          /\ UNCHANGED <<incidents, crStale, managed, idx, stepFailed>>
       \/ /\ ~inst.exists \/ crStale
          /\ returnErr
          /\ UNCHANGED <<inst, incidents>>
       \/ /\ injectedErr
          /\ returnErr
          /\ UNCHANGED inst
    /\ UNCHANGED <<nsLabel, nsExists, roles, roleBindings, clusterRoles,
                   clusterRoleBindings, secrets, components, finalized>>
    /\ UNCHANGED <<watchVars, removeLabelEnv, unitVars>>

\* a variant of managedNamespaces that appends to the list the reconciler holds
managedNamespacesAccumulating(namespace) ==
    managed \o listByLabel(NamespaceOrder, namespace) \o <<namespace>>

\* a variant of managedNamespaces without the instance's own namespace
managedNamespacesListedOnly(namespace) ==
    listByLabel(NamespaceOrder, namespace)

\* setManagedNamespaces: the listed namespaces, then the instance's own
managedNamespaces(namespace) ==
    listByLabel(NamespaceOrder, namespace) \o <<namespace>>

\* setManagedNamespaces, of the steady-state pass and of the delete pass
setManagedNamespaces ==
    /\ rpc \in {"setManagedNamespaces", "deleteManagedNamespaces"}
    /\ \/ /\ managed' = managedNamespaces(OwnNS)
          /\ idx' = 1
          /\ rpc' = IF rpc = "setManagedNamespaces" THEN "reconcileRoles"
                    ELSE "deleteRoles"
          /\ UNCHANGED <<queued, incidents, cr, crStale, stepFailed>>
       \/ /\ injectedErr
          /\ returnErr
    /\ UNCHANGED <<clusterVars, finalized>>
    /\ UNCHANGED <<watchVars, removeLabelEnv, unitVars>>

\* the namespaces of the list in which an object can be created, up to the
\* first one that no longer exists
RECURSIVE existingPrefix(_)
existingPrefix(list) ==
    IF list = <<>> \/ ~nsExists[Head(list)] THEN {}
    ELSE {Head(list)} \cup existingPrefix(Tail(list))

allExist(list) == \A n \in Range(list) : nsExists[n]

reconcileRoles ==
    /\ rpc = "reconcileRoles"
    /\ \/ /\ allExist(managed)
          /\ roles' = roles \cup {<<n, OwnNS>> : n \in Range(managed)}
          /\ clusterRoles' = ClusterComponents
          /\ rpc' = "reconcileRoleBindings"
          /\ UNCHANGED <<queued, incidents, passVars>>
       \/ /\ ~allExist(managed)
          /\ roles' = roles \cup {<<n, OwnNS>> : n \in existingPrefix(managed)}
          /\ returnErr
          /\ UNCHANGED <<clusterRoles, incidents>>
       \/ /\ injectedErr
          /\ returnErr
          /\ UNCHANGED <<roles, clusterRoles>>
    /\ UNCHANGED <<inst, nsLabel, nsExists, roleBindings, clusterRoleBindings,
                   secrets, components, finalized>>
    /\ UNCHANGED <<watchVars, removeLabelEnv, unitVars>>

reconcileRoleBindings ==
    /\ rpc = "reconcileRoleBindings"
    /\ \/ /\ allExist(managed)
          /\ roleBindings' = roleBindings \cup {<<n, OwnNS>> : n \in Range(managed)}
          /\ clusterRoleBindings' = ClusterComponents
          /\ rpc' = "reconcileServiceAccounts"
          /\ UNCHANGED <<queued, incidents, passVars>>
       \/ /\ ~allExist(managed)
          /\ roleBindings' = roleBindings \cup
                                {<<n, OwnNS>> : n \in existingPrefix(managed)}
          /\ returnErr
          /\ UNCHANGED <<clusterRoleBindings, incidents>>
       \/ /\ injectedErr
          /\ returnErr
          /\ UNCHANGED <<roleBindings, clusterRoleBindings>>
    /\ UNCHANGED <<inst, nsLabel, nsExists, roles, clusterRoles, secrets,
                   components, finalized>>
    /\ UNCHANGED <<watchVars, removeLabelEnv, unitVars>>

reconcileServiceAccounts ==
    /\ rpc = "reconcileServiceAccounts"
    /\ \/ /\ components' = Collect(inst, components \cup {"serviceaccount"})
          /\ rpc' = "reconcileSecrets"
          /\ UNCHANGED <<queued, incidents, passVars>>
       \/ /\ injectedErr
          /\ returnErr
          /\ UNCHANGED components
    /\ UNCHANGED <<inst, nsLabel, nsExists, roles, roleBindings, clusterRoles,
                   clusterRoleBindings, secrets, finalized>>
    /\ UNCHANGED <<watchVars, removeLabelEnv, unitVars>>

\* the sorted list of the distinct names of a list of namespaces
RECURSIVE sortedNames(_)
sortedNames(S) ==
    IF S = {} THEN <<>>
    ELSE LET n == CHOOSE x \in S : TRUE
         IN  Insert(sortedNames(S \ {n}), Str(n))

\* reconcileClusterSecrets: the namespaces field is the sorted, comma-joined
\* list of the managed namespaces
reconcileSecrets ==
    /\ rpc = "reconcileSecrets"
    /\ \/ /\ secrets' = [secrets EXCEPT ![OwnNS] =
                 [present |-> TRUE,
                  namespaces |-> Join(sortedNames(Range(managed)))]]
          /\ rpc' = "reconcileDeployments"
          /\ UNCHANGED <<queued, incidents, passVars>>
       \/ /\ injectedErr
          /\ returnErr
          /\ UNCHANGED secrets
    /\ UNCHANGED <<inst, nsLabel, nsExists, roles, roleBindings, clusterRoles,
                   clusterRoleBindings, components, finalized>>
    /\ UNCHANGED <<watchVars, removeLabelEnv, unitVars>>

reconcileDeployments ==
    /\ rpc = "reconcileDeployments"
    /\ \/ /\ components' = Collect(inst, components \cup {"argocd-redis"})
          /\ passReturns(FALSE)
          /\ UNCHANGED incidents
       \/ /\ injectedErr
          /\ returnErr
          /\ UNCHANGED components
    /\ UNCHANGED <<inst, nsLabel, nsExists, roles, roleBindings, clusterRoles,
                   clusterRoleBindings, secrets, finalized>>
    /\ UNCHANGED <<watchVars, removeLabelEnv, unitVars>>

(***************************************************************************)
(* The delete pass: deletion timestamp set and the operator finalizer      *)
(* present.  Namespace-scoped cleanup for every managed namespace, label   *)
(* removal, cluster-scoped RBAC, and the finalizer last.                   *)
(***************************************************************************)
\* deleteRBACsForNamespace(cr.Namespace, managed[idx]): the Roles; a Delete
\* that fails is logged and the loop goes on
PassDeleteRoles ==
    /\ rpc = "deleteRoles"
    /\ \/ \E failed \in FailSets(ListedRoles(managed[idx])) :
             /\ roles' = rolesAfterDelete(managed[idx], failed)
             /\ incidents' = incidents + Cardinality(failed)
             /\ stepFailed' = (stepFailed \/ failed # {})
             /\ rpc' = "deleteRoleBindings"
             /\ UNCHANGED <<queued, cr, crStale, managed, idx>>
       \/ /\ injectedErr
          /\ returnErr
          /\ UNCHANGED roles
    /\ UNCHANGED <<inst, nsLabel, nsExists, roleBindings, clusterRoles,
                   clusterRoleBindings, secrets, components, finalized>>
    /\ UNCHANGED <<watchVars, removeLabelEnv, unitVars>>

\* deleteRBACsForNamespace(cr.Namespace, managed[idx]): the RoleBindings
PassDeleteRoleBindings ==
    /\ rpc = "deleteRoleBindings"
    /\ \/ \E failed \in FailSets(ListedRoleBindings(managed[idx])) :
             /\ roleBindings' = roleBindingsAfterDelete(managed[idx], failed)
             /\ incidents' = incidents + Cardinality(failed)
             /\ stepFailed' = (stepFailed \/ failed # {})
             /\ rpc' = "deleteFromSecret"
             /\ UNCHANGED <<queued, cr, crStale, managed, idx>>
       \/ /\ injectedErr
          /\ returnErr
          /\ UNCHANGED roleBindings
    /\ UNCHANGED <<inst, nsLabel, nsExists, roles, clusterRoles,
                   clusterRoleBindings, secrets, components, finalized>>
    /\ UNCHANGED <<watchVars, removeLabelEnv, unitVars>>

\* deleteManagedNamespaceFromClusterSecret(cr.Namespace, managed[idx])
PassDeleteFromSecret ==
    /\ rpc = "deleteFromSecret"
    /\ \E fail \in SecretFailModes(OwnNS) :
          /\ secrets' = deleteManagedNamespaceFromClusterSecret(OwnNS,
                                                                managed[idx], fail)
          /\ incidents' = IF fail = "none" THEN incidents ELSE incidents + 1
          /\ IF clusterSecretErr(OwnNS, fail)
             THEN returnErr
             ELSE /\ idx' = idx + 1
                  /\ rpc' = IF idx < Len(managed) THEN "deleteRoles"
                            ELSE "removeManagedByLabel"
                  /\ UNCHANGED <<queued, cr, crStale, managed, stepFailed>>
    /\ UNCHANGED <<inst, nsLabel, nsExists, roles, roleBindings, clusterRoles,
                   clusterRoleBindings, components, finalized>>
    /\ UNCHANGED <<watchVars, removeLabelEnv, unitVars>>

\* the Update events of the namespaces whose label was removed, in name order
RECURSIVE labelEvents(_, _, _)
labelEvents(names, updated, namespace) ==
    IF names = <<>> THEN <<>>
    ELSE (IF Head(names) \in updated
          THEN <<[kind |-> "update", name |-> Head(names),
                  old |-> namespace, new |-> NoLabel]>>
          ELSE <<>>) \o labelEvents(Tail(names), updated, namespace)

\* a variant of labelTargets that leaves the instance's own namespace out
labelTargetsOthers(namespace) ==
    {n \in Range(listByLabel(NamespaceOrder, namespace)) \ {namespace} :
        nsLabel[n] = namespace}

\* removeManagedByLabelFromNamespaces: the namespaces whose label it removes
labelTargets(namespace) ==
    {n \in Range(managedNamespaces(namespace)) : nsLabel[n] = namespace}

\* a variant of the gate that does not read the environment
removeRegardless == TRUE

\* REMOVE_MANAGED_BY_LABEL_ON_ARGOCD_DELETION is "true"
isRemoveManagedByLabelOnArgoCDDeletion == removeLabelEnv

\* removeManagedByLabelFromNamespaces(cr.Namespace), run when the environment
\* asks for it; an Update that fails is logged and the loop goes on
removeManagedByLabelFromNamespaces ==
    /\ rpc = "removeManagedByLabel"
    /\ \/ /\ ~isRemoveManagedByLabelOnArgoCDDeletion
          /\ rpc' = "deleteClusterRoles"
          /\ UNCHANGED <<nsLabel, nsEvents, queued, incidents, passVars>>
       \/ /\ isRemoveManagedByLabelOnArgoCDDeletion
          /\ \E failed \in FailSets(labelTargets(OwnNS)) :
                /\ nsLabel' = [n \in Namespaces |->
                                  IF n \in labelTargets(OwnNS) \ failed
                                  THEN NoLabel ELSE nsLabel[n]]
                /\ nsEvents' = nsEvents \o
                       labelEvents(NamespaceOrder, labelTargets(OwnNS) \ failed,
                                   OwnNS)
                /\ incidents' = incidents + Cardinality(failed)
                /\ stepFailed' = (stepFailed \/ failed # {})
          /\ rpc' = "deleteClusterRoles"
          /\ UNCHANGED <<queued, cr, crStale, managed, idx>>
       \/ /\ isRemoveManagedByLabelOnArgoCDDeletion
          /\ injectedErr
          /\ returnErr
          /\ UNCHANGED <<nsLabel, nsEvents>>
    /\ UNCHANGED <<inst, nsExists, roles, roleBindings, clusterRoles,
                   clusterRoleBindings, secrets, components, finalized>>
    /\ UNCHANGED <<ppc, pevt, pret, removeLabelEnv, unitVars>>

\* deleteClusterResources: the ClusterRoles selected by managed-by = cr.Name
deleteClusterRoles ==
    /\ rpc = "deleteClusterRoles"
    /\ \/ /\ clusterRoles' = {}
          /\ rpc' = "deleteClusterRoleBindings"
          /\ UNCHANGED <<queued, incidents, passVars>>
       \/ /\ injectedErr
          /\ returnErr
          /\ UNCHANGED clusterRoles
    /\ UNCHANGED <<inst, nsLabel, nsExists, roles, roleBindings,
                   clusterRoleBindings, secrets, components, finalized>>
    /\ UNCHANGED <<watchVars, removeLabelEnv, unitVars>>

\* deleteClusterResources: then the ClusterRoleBindings
deleteClusterRoleBindings ==
    /\ rpc = "deleteClusterRoleBindings"
    /\ \/ /\ clusterRoleBindings' = {}
          /\ rpc' = "removeDeletionFinalizer"
          /\ UNCHANGED <<queued, incidents, passVars>>
       \/ /\ injectedErr
          /\ returnErr
          /\ UNCHANGED clusterRoleBindings
    /\ UNCHANGED <<inst, nsLabel, nsExists, roles, roleBindings, clusterRoles,
                   secrets, components, finalized>>
    /\ UNCHANGED <<watchVars, removeLabelEnv, unitVars>>

\* removeDeletionFinalizer: Update of the fetched copy without the finalizer
removeDeletionFinalizer ==
    /\ rpc = "removeDeletionFinalizer"
    /\ \/ /\ inst' = Finalize([inst EXCEPT !.fin =
                                 removeString(cr.fin, ArgoCDDeletionFinalizer)])
          /\ components' = Collect(inst', components)
          /\ finalized' = TRUE
          /\ passReturns(TRUE)
          /\ UNCHANGED incidents
       \/ /\ injectedErr
          /\ returnErr
          /\ UNCHANGED <<inst, components, finalized>>
    /\ UNCHANGED <<nsLabel, nsExists, roles, roleBindings, clusterRoles,
                   clusterRoleBindings, secrets>>
    /\ UNCHANGED <<watchVars, removeLabelEnv, unitVars>>

(***************************************************************************)
(* The specification of the lifecycle and the namespace watch.             *)
(***************************************************************************)
Init ==
    /\ inst \in {[exists |-> TRUE, deleting |-> FALSE, fin |-> f] :
                    f \in {{}, {ForeignFinalizer}}}
    /\ nsLabel \in {[n \in Namespaces |-> IF n = OwnNS THEN NoLabel ELSE v] :
                       v \in {NoLabel, OwnNS}}
    /\ nsExists = [n \in Namespaces |-> TRUE]
    /\ roles = {}
    /\ roleBindings = {}
    /\ clusterRoles = {}
    /\ clusterRoleBindings = {}
    /\ secrets = [o \in Owners |-> NoSecret]
    /\ components = {}
    /\ queued = TRUE
    /\ rpc = "idle"
    /\ cr = NoCR
    /\ crStale = FALSE
    /\ managed = <<>>
    /\ idx = 0
    /\ stepFailed = FALSE
    /\ finalized = FALSE
    /\ nsEvents = <<>>
    /\ ppc = "idle"
    /\ pevt = NoEvent
    /\ pret = FALSE
    /\ incidents = 0
    /\ removeLabelEnv \in BOOLEAN
    /\ secretCall = NoCall
    /\ UnitsIdle

Next ==
    \/ \E ns \in Namespaces : \E v \in {NoLabel} \cup Owners : UserLabel(ns, v)
    \/ \E ns \in Namespaces : UserDeleteNamespace(ns)
    \/ UserDeleteInstance
    \/ Resync
    \/ UpdateFunc
    \/ DeleteFunc
    \/ initK8sClient
    \/ PredicateDeleteRoles
    \/ PredicateDeleteRoleBindings
    \/ PredicateDeleteFromSecret
    \/ Reconcile
    \/ addDeletionFinalizer
    \/ setManagedNamespaces
    \/ reconcileRoles
    \/ reconcileRoleBindings
    \/ reconcileServiceAccounts
    \/ reconcileSecrets
    \/ reconcileDeployments
    \/ PassDeleteRoles
    \/ PassDeleteRoleBindings
    \/ PassDeleteFromSecret
    \/ removeManagedByLabelFromNamespaces
    \/ deleteClusterRoles
    \/ deleteClusterRoleBindings
    \/ removeDeletionFinalizer

Spec == Init /\ [][Next]_vars

(***************************************************************************)
(* deleteManagedNamespaceFromClusterSecret on arbitrary prior contents of  *)
(* the `namespaces` field: a second specification, whose initial states    *)
(* draw the field from the lists of at most MaxEntries entries.            *)
(***************************************************************************)
\* the forms of one entry: a namespace name, possibly after a space
EntryForms == {Str(n) : n \in NsNames} \cup {<<" ">> \o Str(n) : n \in NsNames}

\* the lists of at most k entries
RECURSIVE EntryLists(_)
EntryLists(k) ==
    IF k = 0 THEN {<<>>}
    ELSE LET shorter == EntryLists(k - 1)
         IN  shorter \cup {Append(l, e) : l \in shorter, e \in EntryForms}

Priors == {Join(l) : l \in EntryLists(MaxEntries)}

\* one call of deleteManagedNamespaceFromClusterSecret(ownerNS, sourceNS)
SecretDelete(ownerNS, sourceNS) ==
    /\ \E fail \in SecretFailModes(ownerNS) :
          /\ secrets' = deleteManagedNamespaceFromClusterSecret(ownerNS,
                                                                sourceNS, fail)
          /\ secretCall' = [owner |-> ownerNS, source |-> sourceNS,
                            present |-> secrets[ownerNS].present,
                            before |-> secrets[ownerNS].namespaces,
                            fail |-> fail,
                            updated |-> clusterSecretUpdated(ownerNS, fail),
                            err |-> clusterSecretErr(ownerNS, fail)]
          /\ incidents' = IF fail = "none" THEN incidents ELSE incidents + 1
    /\ UNCHANGED <<inst, nsLabel, nsExists, roles, roleBindings, clusterRoles,
                   clusterRoleBindings, components>>
    /\ UNCHANGED <<workerVars, watchVars, removeLabelEnv>>
    /\ UNCHANGED <<run, flags, inspect, upd, calc, app, dep, nsObj, rbacCall>>

InitSecret ==
    /\ inst = [exists |-> TRUE, deleting |-> FALSE,
               fin |-> {ArgoCDDeletionFinalizer}]
    /\ nsLabel = [n \in Namespaces |-> NoLabel]
    /\ nsExists = [n \in Namespaces |-> TRUE]
    /\ roles = {}
    /\ roleBindings = {}
    /\ clusterRoles = {}
    /\ clusterRoleBindings = {}
    /\ secrets \in {[o \in Owners |-> IF o = OwnNS
                                     THEN [present |-> TRUE, namespaces |-> p]
                                     ELSE NoSecret] : p \in Priors}
    /\ components = {}
    /\ queued = FALSE
    /\ rpc = "idle"
    /\ cr = NoCR
    /\ crStale = FALSE
    /\ managed = <<>>
    /\ idx = 0
    /\ stepFailed = FALSE
    /\ finalized = FALSE
    /\ nsEvents = <<>>
    /\ ppc = "idle"
    /\ pevt = NoEvent
    /\ pret = FALSE
    /\ incidents = 0
    /\ removeLabelEnv = FALSE
    /\ secretCall = NoCall
    /\ UnitsIdle

NextSecret == \E ownerNS \in Owners : \E sourceNS \in NsNames :
                 SecretDelete(ownerNS, sourceNS)

SpecSecret == InitSecret /\ [][NextSecret]_vars

(***************************************************************************)
(* Properties.                                                             *)
(***************************************************************************)
\* the step removes the operator finalizer from the Instance
FinalizerRemoved ==
    /\ ArgoCDDeletionFinalizer \in inst.fin
    /\ ArgoCDDeletionFinalizer \notin inst'.fin

\* C1: in a delete pass the operator finalizer is removed only if every
\* cleanup step of that pass succeeded: no step that removes the finalizer is
\* taken by a pass in which an API call of a cleanup step failed.
C1_FinalizerOnlyAfterCleanup ==
    [][FinalizerRemoved => ~stepFailed]_vars

\* Roles and RoleBindings the Instance created in another namespace
ForeignRBAC == {r \in roles \cup roleBindings : r[2] = OwnNS /\ r[1] # OwnNS}

\* C2: in every state in which the Instance object no longer exists, no
\* ClusterRole or ClusterRoleBinding of it is left, and no Role or RoleBinding
\* it created in another namespace.
C2_NoOrphansOnceGone ==
    ~inst.exists =>
        clusterRoles = {} /\ clusterRoleBindings = {} /\ ForeignRBAC = {}

\* at least one resource created for the Instance exists
SomeResourceExists ==
    \/ roles # {}
    \/ roleBindings # {}
    \/ clusterRoles # {}
    \/ clusterRoleBindings # {}
    \/ components # {}
    \/ secrets[OwnNS].present

\* C3: the finalizer is written before any other resource is created: in
\* every state in which a resource created for the Instance exists, the
\* Instance carries the finalizer, until a delete pass has removed it.
C3_FinalizerBeforeResources ==
    SomeResourceExists => (ArgoCDDeletionFinalizer \in inst.fin \/ finalized)

\* C3 witness: resources of a live Instance exist, under its finalizer
C3_Witness ==
    /\ inst.exists /\ ~inst.deleting /\ ~finalized
    /\ ArgoCDDeletionFinalizer \in inst.fin
    /\ "argocd-redis" \in components
    /\ roles # {}

\* the step belongs to a pass that fetched the Instance with its deletion
\* timestamp set (the fetching step included)
DeletingPassStep ==
    \/ rpc # "idle" /\ cr.deleting
    \/ rpc = "idle" /\ queued /\ ~queued' /\ inst.deleting

\* the step creates no resource
NothingCreated ==
    /\ components' \subseteq components
    /\ roles' \subseteq roles
    /\ roleBindings' \subseteq roleBindings
    /\ clusterRoles' \subseteq clusterRoles
    /\ clusterRoleBindings' \subseteq clusterRoleBindings
    /\ secrets'[OwnNS].present => secrets[OwnNS].present

C5_CleanupSerializedWithPass ==
    ~(ppc \in {"roles", "bindings", "secret"} /\ rpc # "idle")

\* the step is the first one of the predicate for the event at the head of
\* the queue
PredicateStarts == nsEvents # <<>> /\ nsEvents' = Tail(nsEvents)

\* the step is one of the predicate handling pevt, taken at position p
PredicateStepAt(p) == ppc = p /\ ppc' # ppc

\* the managed-by label differs between the old and the new object
LabelDiffers(e) == e.kind = "update" /\ e.old # e.new

\* the entries of the cluster secret of an owner (none when there is no secret)
SecretEntries(s, ownerNS) ==
    IF s[ownerNS].present THEN Entries(s[ownerNS].namespaces) ELSE {}

\* C6: on every namespace update event in which the managed-by label differs
\* (changed, added or removed) the predicate, before it returns, runs the RBAC
\* removal for the namespace (after which no Role or RoleBinding is listed
\* there) and removes the namespace from the cluster secret of the instance
\* the old label names.
C6_UpdateEventCleanup ==
    [][/\ (PredicateStarts /\ LabelDiffers(Head(nsEvents)))
              => ppc' = "initClient"
       /\ (LabelDiffers(pevt) /\ PredicateStepAt("initClient"))
              => ppc' = "roles"
       /\ (LabelDiffers(pevt) /\ PredicateStepAt("roles"))
              => {r \in roles' : r[1] = pevt.name} = {}
       /\ (LabelDiffers(pevt) /\ PredicateStepAt("bindings"))
              => {b \in roleBindings' : b[1] = pevt.name} = {}
       /\ (LabelDiffers(pevt) /\ PredicateStepAt("secret"))
              => Str(pevt.name) \notin SecretEntries(secrets', pevt.old)]_vars

\* the namespace of a delete event carried a managed-by label
LabelledDelete(e) == e.kind = "delete" /\ e.old # NoLabel

\* C7: on a namespace delete event for a namespace that carries a managed-by
\* label the predicate performs the cleanup of a label removal: it runs the
\* removal of the Roles and RoleBindings of the namespace and removes the
\* namespace from the cluster secret of the instance the label names.
C7_DeleteEventCleanup ==
    [][/\ (PredicateStarts /\ LabelledDelete(Head(nsEvents)))
              => ppc' = "initClient"
       /\ (LabelledDelete(pevt) /\ PredicateStepAt("initClient"))
              => ppc' = UpdateFuncCleanup
       /\ (LabelledDelete(pevt) /\ PredicateStepAt("secret"))
              => Str(pevt.name) \notin SecretEntries(secrets', pevt.old)]_vars

\* the trimmed entries of a list other than X, in the order of the list
RECURSIVE OtherEntries(_, _)
OtherEntries(list, X) ==
    IF list = <<>> THEN <<>>
    ELSE (IF TrimSpace(Head(list)) = X THEN <<>> ELSE <<TrimSpace(Head(list))>>)
         \o OtherEntries(Tail(list), X)

\* C8: after deleteManagedNamespaceFromClusterSecret(owner, X) has returned
\* success on an existing cluster secret, the namespaces field does not
\* contain X and is the sorted, comma-joined list of the other entries it had,
\* whatever it held before (X among several entries, X alone, X absent).
C8_NamespaceRemovedFromSecret ==
    (secretCall.present /\ ~secretCall.err) =>
        LET after == secrets[secretCall.owner].namespaces
            X == Str(secretCall.source)
        IN  /\ X \notin Entries(after)
            /\ after = Join(SortStrings(OtherEntries(Split(secretCall.before), X)))

\* C9: every RoleBinding is deleted before the Role it references: no step
\* deletes a Role and leaves the RoleBinding of the same namespace and
\* instance, which references it.
C9_RoleBindingBeforeRole ==
    [][\A r \in roles : r \notin roles' => r \notin roleBindings']_vars

\* C10: on deletion no dependency is deleted while a dependent that references
\* it still exists: no step deletes a ClusterRole and leaves the
\* ClusterRoleBinding that references it.
C10_ClusterRoleBindingBeforeClusterRole ==
    [][\A c \in clusterRoles :
          c \notin clusterRoles' => c \notin clusterRoleBindings']_vars

(***************************************************************************)
(* The sequences of per-kind reconcilers: reconcileResources, the server   *)
(* component's Reconcile and reconcileNotificationsController, each        *)
(* exercised on its own.  A further specification, in which every call of  *)
(* a sequence may return an error.                                         *)
(***************************************************************************)
\* the state of the lifecycle and of the watch while they are not exercised
lifecycleVars == <<clusterVars, workerVars, watchVars, incidents,
                   removeLabelEnv, secretCall>>

LifecycleIdle ==
    /\ inst = [exists |-> TRUE, deleting |-> FALSE,
               fin |-> {ArgoCDDeletionFinalizer}]
    /\ nsLabel = [n \in Namespaces |-> NoLabel]
    /\ nsExists = [n \in Namespaces |-> TRUE]
    /\ roles = {}
    /\ roleBindings = {}
    /\ clusterRoles = {}
    /\ clusterRoleBindings = {}
    /\ secrets = [o \in Owners |-> NoSecret]
    /\ components = {}
    /\ queued = FALSE
    /\ rpc = "idle"
    /\ cr = NoCR
    /\ crStale = FALSE
    /\ managed = <<>>
    /\ idx = 0
    /\ stepFailed = FALSE
    /\ finalized = FALSE
    /\ nsEvents = <<>>
    /\ ppc = "idle"
    /\ pevt = NoEvent
    /\ pret = FALSE
    /\ incidents = 0
    /\ removeLabelEnv = FALSE
    /\ secretCall = NoCall

\* the calls reconcileResources makes, in order
reconcileResourcesSteps(routeAPI, prometheusAPI, applicationSet, sso) ==
    <<"reconcileStatus", "reconcileRoles", "reconcileRoleBindings",
      "reconcileServiceAccounts", "reconcileCertificateAuthority",
      "reconcileSecrets", "reconcileConfigMaps", "reconcileServices",
      "reconcileDeployments", "reconcileStatefulSets", "reconcileAutoscalers",
      "reconcileIngresses">>
    \o (IF routeAPI THEN <<"reconcileRoutes">> ELSE <<>>)
    \o (IF prometheusAPI
        THEN <<"reconcilePrometheus", "reconcileMetricsServiceMonitor",
               "reconcileRepoServerServiceMonitor",
               "reconcileServerMetricsServiceMonitor">>
        ELSE <<>>)
    \o (IF applicationSet THEN <<"reconcileApplicationSetController">>
                          ELSE <<>>)
    \o <<"reconcileRepoServerTLSSecret">>
    \o (IF sso THEN <<"reconcileSSO">> ELSE <<>>)

\* the calls ServerReconciler.DeleteResources makes, in order
DeleteResourcesSteps(routeAPI) ==
    (IF routeAPI THEN <<"deleteRoute">> ELSE <<>>)
    \o <<"deleteIngresses", "deleteHorizontalPodAutoscaler", "deleteService",
         "deleteDeployment", "deleteRoleBindings", "deleteRoles",
         "deleteClusterRoleBinding", "deleteClusterRole",
         "deleteServiceAccount">>

\* the calls ServerReconciler.Reconcile makes, in order
ServerReconcileSteps(routeAPI, nsDeleting) ==
    <<"GetNamespace">>
    \o (IF nsDeleting
        THEN DeleteResourcesSteps(routeAPI)
        ELSE <<"reconcileServiceAccount", "reconcileClusterRole",
               "reconcileClusterRoleBinding", "reconcileRoles",
               "reconcileRoleBindings", "reconcileDeployment",
               "reconcileService", "reconcileHorizontalPodAutoscaler",
               "reconcileIngresses">>
             \o (IF routeAPI THEN <<"reconcileRoute">> ELSE <<>>))

\* the calls reconcileNotificationsController makes, in order
reconcileNotificationsControllerSteps ==
    <<"reconcileNotificationsServiceAccount", "reconcileNotificationsRole",
      "reconcileNotificationsRoleBinding", "reconcileNotificationsConfigMap",
      "reconcileNotificationsSecret", "reconcileNotificationsDeployment">>

\* the calls of the sequence r is running
StepsOf(r) ==
    CASE r.fn = "reconcileResources" ->
             reconcileResourcesSteps(flags["route"], flags["prometheus"],
                                     r.applicationSet, r.sso)
      [] r.fn = "Reconcile" ->
             ServerReconcileSteps(flags["route"], r.nsDeleting)
      [] r.fn = "reconcileNotificationsController" ->
             reconcileNotificationsControllerSteps
      [] OTHER -> <<>>

\* a variant of stepReturns that only logs the error of a call
stepLogsErr(r, step, failed) ==
    IF failed THEN [r EXCEPT !.errs = @ \cup {step}, !.done = Append(@, step)]
    ELSE [r EXCEPT !.done = Append(@, step)]

\* `if err := step(); err != nil { return err }`: the run after one call
stepReturns(r, step, failed) ==
    IF failed THEN [r EXCEPT !.errs = @ \cup {step}, !.ret = "err",
                             !.err = step]
    ELSE [r EXCEPT !.done = Append(@, step)]

\* a sequence is entered
RunBegin ==
    /\ run.ret # "running"
    /\ \E fn \in {"reconcileResources", "Reconcile",
                  "reconcileNotificationsController"} :
       \E applicationSet \in BOOLEAN : \E sso \in BOOLEAN :
       \E nsDeleting \in BOOLEAN :
          /\ fn # "reconcileResources" => ~applicationSet /\ ~sso
          /\ fn # "Reconcile" => ~nsDeleting
          /\ run' = [fn |-> fn, done |-> <<>>, errs |-> {}, ret |-> "running",
                     err |-> "", applicationSet |-> applicationSet,
                     sso |-> sso, nsDeleting |-> nsDeleting]
    /\ UNCHANGED <<lifecycleVars, flags, inspect, upd, calc, app, dep,
                   nsObj, rbacCall>>

\* the running sequence makes its next call, or returns nil after the last
CallNext(fn) ==
    /\ run.fn = fn
    /\ run.ret = "running"
    /\ LET steps == StepsOf(run)
       IN  IF Len(run.done) = Len(steps)
           THEN run' = [run EXCEPT !.ret = "nil"]
           ELSE \E failed \in BOOLEAN :
                   run' = stepReturns(run, steps[Len(run.done) + 1], failed)
    /\ UNCHANGED <<lifecycleVars, flags, inspect, upd, calc, app, dep,
                   nsObj, rbacCall>>

reconcileResources == CallNext("reconcileResources")
ServerReconcile == CallNext("Reconcile")
reconcileNotificationsController ==
    CallNext("reconcileNotificationsController")

InitPass ==
    /\ LifecycleIdle
    /\ run = NoRun
    /\ flags \in [DOMAIN NoFlags -> BOOLEAN]
    /\ inspect = NoInspect
    /\ upd = NoUpdate
    /\ calc = NoCalc
    /\ app = NoApp
    /\ dep = NoDep
    /\ nsObj = NoNsObj
    /\ rbacCall = NoRBACCall

NextPass ==
    \/ RunBegin
    \/ reconcileResources
    \/ ServerReconcile
    \/ reconcileNotificationsController

SpecPass == InitPass /\ [][NextPass]_vars

\* the kind a call reconciles, by its place in the dependency order:
\* 1 service accounts, 2 roles and role bindings, 3 workloads, 4 services,
\* 5 ingresses and routes, 6 capability-gated extras, 0 anything else
KindRank(step) ==
    CASE step \in {"reconcileServiceAccounts", "reconcileServiceAccount",
                   "reconcileNotificationsServiceAccount"} -> 1
      [] step \in {"reconcileRoles", "reconcileRoleBindings",
                   "reconcileClusterRole", "reconcileClusterRoleBinding",
                   "reconcileNotificationsRole",
                   "reconcileNotificationsRoleBinding"} -> 2
      [] step \in {"reconcileDeployments", "reconcileStatefulSets",
                   "reconcileDeployment",
                   "reconcileNotificationsDeployment"} -> 3
      [] step \in {"reconcileServices", "reconcileService"} -> 4
      [] step \in {"reconcileIngresses", "reconcileRoutes",
                   "reconcileRoute"} -> 5
      [] step \in {"reconcilePrometheus", "reconcileMetricsServiceMonitor",
                   "reconcileRepoServerServiceMonitor",
                   "reconcileServerMetricsServiceMonitor",
                   "reconcileApplicationSetController", "reconcileSSO"} -> 6
      [] OTHER -> 0

\* the calls of a list that reconcile a kind come in dependency order
InKindOrder(done) ==
    \A i \in 1..Len(done) : \A j \in 1..Len(done) :
       (i < j /\ KindRank(done[i]) > 0 /\ KindRank(done[j]) > 0)
          => KindRank(done[i]) <= KindRank(done[j])

\* C11: within one steady-state pass no reconciler of a later kind (service
\* accounts, roles and role bindings, workloads, services, ingresses and
\* routes, capability-gated extras) has run before one of an earlier kind
C11_KindOrder == InKindOrder(run.done)

\* the component reconcilers do keep the order
C11_ComponentsKeepOrder ==
    run.fn # "reconcileResources" => InKindOrder(run.done)

\* C12: if a call of a sequence returns an error, the sequence returns that
\* error, none of its later calls is made, and what the earlier calls did
\* stays: the calls made are exactly those before the failed one
C12_ErrorAbortsPass ==
    run.errs # {} =>
       /\ run.ret = "err"
       /\ run.errs = {run.err}
       /\ \E k \in 1..Len(StepsOf(run)) :
             /\ StepsOf(run)[k] = run.err
             /\ run.done = SubSeq(StepsOf(run), 1, k - 1)

\* a sequence failed after at least two of its calls and before its last
C12_Witness ==
    /\ run.ret = "err"
    /\ Len(run.done) >= 2
    /\ Len(run.done) + 1 < Len(StepsOf(run))

(***************************************************************************)
(* RepoServerReconciler.reconcileStatus and UpdateInstanceStatus against   *)
(* an instance that other clients write too: a further specification.      *)
(***************************************************************************)
\* the reconciler is handed a freshly fetched instance
GetInstance ==
    /\ upd.pc # "updating"
    /\ upd' = [upd EXCEPT !.copy = upd.rv, !.copyStatus = upd.status]
    /\ UNCHANGED <<lifecycleVars, run, flags, inspect, calc, app, dep,
                   nsObj, rbacCall>>

\* another client updates the instance
OtherWriter ==
    /\ upd.rv < MaxVersion
    /\ upd' = [upd EXCEPT !.rv = @ + 1]
    /\ UNCHANGED <<lifecycleVars, run, flags, inspect, calc, app, dep,
                   nsObj, rbacCall>>

\* reconcileStatus up to its call of UpdateInstanceStatus
reconcileStatus ==
    /\ upd.pc # "updating"
    /\ upd.rv < MaxVersion
    /\ \E deploy \in {"err", "Pending", "Running"} :
          IF deploy = "err"
          THEN upd' = [upd EXCEPT !.pc = "returned", !.ret = "err",
                                  !.attempts = 0, !.conflicted = {}]
          ELSE upd' = [upd EXCEPT !.pc = "updating", !.ret = "none",
                                  !.copyStatus = deploy,
                                  !.attempts = 0, !.conflicted = {}]
    /\ UNCHANGED <<lifecycleVars, run, flags, inspect, calc, app, dep,
                   nsObj, rbacCall>>

\* one try of the closure retry.RetryOnConflict runs: Status().Update of
\* rsr.Instance.  The API server accepts it only for the current resource
\* version.  Whether the wrapped conflict is recognised as one (and retried)
\* depends on the apimachinery release, which the sources do not fix.
UpdateInstanceStatus ==
    /\ upd.pc = "updating"
    /\ \E apiErr \in BOOLEAN : \E recognised \in BOOLEAN :
          IF apiErr
          THEN upd' = [upd EXCEPT !.pc = "returned", !.ret = "err",
                                  !.attempts = @ + 1]
          ELSE IF upd.copy = upd.rv
          THEN upd' = [upd EXCEPT !.pc = "returned", !.ret = "nil",
                                  !.attempts = @ + 1,
                                  !.rv = @ + 1, !.copy = upd.rv + 1,
                                  !.status = upd.copyStatus]
          ELSE IF recognised /\ upd.attempts + 1 < RetrySteps
          THEN upd' = [upd EXCEPT !.attempts = @ + 1,
                                  !.conflicted = @ \cup {upd.copy}]
          ELSE upd' = [upd EXCEPT !.pc = "returned", !.ret = "err",
                                  !.attempts = @ + 1,
                                  !.conflicted = @ \cup {upd.copy}]
    /\ UNCHANGED <<lifecycleVars, run, flags, inspect, calc, app, dep,
                   nsObj, rbacCall>>

InitStatus ==
    /\ LifecycleIdle
    /\ run = NoRun
    /\ flags = NoFlags
    /\ inspect = NoInspect
    /\ upd = NoUpdate
    /\ calc = NoCalc
    /\ app = NoApp
    /\ dep = NoDep
    /\ nsObj = NoNsObj
    /\ rbacCall = NoRBACCall

NextStatus ==
    \/ GetInstance
    \/ OtherWriter
    \/ reconcileStatus
    \/ UpdateInstanceStatus

SpecStatus == InitStatus /\ [][NextStatus]_vars

\* the operator sends an Update
SendsUpdate == upd'.attempts > upd.attempts

\* C13: on a resource-version conflict the operator never overwrites the
\* object with its stale copy, the conflict ends the call with an error
\* unless a retry succeeds, and a retry is sent only after the object has
\* been fetched again (never with a copy that has already conflicted)
C13_ConflictRefetch ==
    [][/\ (upd'.status # upd.status \/ (SendsUpdate /\ upd'.rv # upd.rv))
             => upd.copy = upd.rv
       /\ (SendsUpdate /\ upd'.ret = "nil") => upd.copy = upd.rv
       /\ SendsUpdate => upd.copy \notin upd.conflicted]_vars

\* a stale copy never overwrites
C13_NoStaleOverwrite ==
    [][(upd'.status # upd.status \/ (SendsUpdate /\ upd'.rv # upd.rv))
          => upd.copy = upd.rv]_vars

(***************************************************************************)
(* The capability probes and the two InspectCluster functions: a further   *)
(* specification, whose initial states draw the flags a previous refresh   *)
(* has left.                                                               *)
(***************************************************************************)
\* what can happen inside verifyAPI: config.GetConfig fails,
\* kubernetes.NewForConfig fails, discovery.ServerSupportsVersion fails
\* because the discovery request does (a transient error), or it reports
\* the version as unsupported, or as supported
ProbeOutcomes == {"configErr", "clientErr", "discoveryErr", "unsupported",
                  "supported"}
\* the outcomes in which probing itself failed
ProbeFailures == {"configErr", "clientErr", "discoveryErr"}

\* verifyAPI(group, version): (found, err)
verifyAPI(outcome) ==
    CASE outcome \in {"configErr", "clientErr"} ->
             [found |-> FALSE, err |-> TRUE]
      [] outcome \in {"discoveryErr", "unsupported"} ->
             [found |-> FALSE, err |-> FALSE]
      [] OTHER -> [found |-> TRUE, err |-> FALSE]

\* verifyPrometheusAPI, verifyRouteAPI, verifyTemplateAPI, verifyVersionAPI:
\* the flags after the probe of capability a
verifyFlagAPI(a, outcome) ==
    IF verifyAPI(outcome).err THEN flags
    ELSE [flags EXCEPT ![a] = verifyAPI(outcome).found]

\* one of the two InspectCluster functions is called
InspectBegin ==
    /\ inspect.ret # "running"
    /\ \E fn \in {"InspectCluster", "InspectClusterAll"} :
          inspect' = [fn |-> fn, pc |-> 1, probed |-> {}, failed |-> {},
                      inspectError |-> FALSE, ret |-> "running"]
    /\ UNCHANGED <<lifecycleVars, run, flags, upd, calc, app, dep,
                   nsObj, rbacCall>>

\* the record of a probe of capability a with the given outcome
Probed(a, outcome) ==
    [inspect EXCEPT !.probed = @ \cup {a},
                    !.failed = IF outcome \in ProbeFailures THEN @ \cup {a}
                               ELSE @]

\* controllers/argocd InspectCluster: the next probe; its error is returned
InspectCluster ==
    /\ inspect.fn = "InspectCluster"
    /\ inspect.ret = "running"
    /\ IF inspect.pc > Len(APIs)
       THEN /\ inspect' = [inspect EXCEPT !.ret = "nil"]
            /\ flags' = flags
       ELSE \E outcome \in ProbeOutcomes :
               LET a == APIs[inspect.pc]
               IN  /\ flags' = verifyFlagAPI(a, outcome)
                   /\ inspect' =
                         IF verifyAPI(outcome).err
                         THEN [Probed(a, outcome) EXCEPT !.ret = "err",
                                                         !.inspectError = TRUE]
                         ELSE [Probed(a, outcome) EXCEPT !.pc = @ + 1]
    /\ UNCHANGED <<lifecycleVars, run, upd, calc, app, dep, nsObj, rbacCall>>

\* the InspectCluster that collects inspectError: the next probe; after the
\* last, the last error is returned
InspectClusterAll ==
    /\ inspect.fn = "InspectClusterAll"
    /\ inspect.ret = "running"
    /\ IF inspect.pc > Len(APIs)
       THEN /\ inspect' = [inspect EXCEPT
                              !.ret = IF inspect.inspectError THEN "err"
                                      ELSE "nil"]
            /\ flags' = flags
       ELSE \E outcome \in ProbeOutcomes :
               LET a == APIs[inspect.pc]
               IN  /\ flags' = verifyFlagAPI(a, outcome)
                   /\ inspect' =
                         [Probed(a, outcome) EXCEPT
                             !.pc = @ + 1,
                             !.inspectError = @ \/ verifyAPI(outcome).err]
    /\ UNCHANGED <<lifecycleVars, run, upd, calc, app, dep, nsObj, rbacCall>>

InitProbe ==
    /\ LifecycleIdle
    /\ run = NoRun
    /\ flags \in [DOMAIN NoFlags -> BOOLEAN]
    /\ inspect = NoInspect
    /\ upd = NoUpdate
    /\ calc = NoCalc
    /\ app = NoApp
    /\ dep = NoDep
    /\ nsObj = NoNsObj
    /\ rbacCall = NoRBACCall

NextProbe ==
    \/ InspectBegin
    \/ InspectCluster
    \/ InspectClusterAll

SpecProbe == InitProbe /\ [][NextProbe]_vars

\* C14: when probing a capability fails, its process-wide flag keeps the
\* value it had: a flag is not set to false by a transient discovery error
C14_FailedProbeKeepsFlag ==
    [][\A a \in DOMAIN flags :
          (a \in inspect'.failed /\ a \notin inspect.failed)
             => flags'[a] = flags[a]]_vars

\* a probe in which getting the config or building the client fails does
\* keep the flag
C14_ErrKeepsFlag ==
    [][(inspect'.inspectError /\ ~inspect.inspectError) => flags' = flags]_vars

\* C15: the four capabilities are probed independently: a run of
\* InspectCluster that has returned has probed every one of them, whether or
\* not an earlier probe failed
C15_ProbesIndependent ==
    inspect.ret \in {"nil", "err"} => inspect.probed = DOMAIN flags

\* the InspectCluster that collects inspectError probes all four
C15_CollectingProbesAll ==
    (inspect.fn = "InspectClusterAll" /\ inspect.ret \in {"nil", "err"})
       => inspect.probed = DOMAIN flags

\* the step completes a delete pass: the finalizer is removed and the pass
\* returns
DeletePassCompletes ==
    /\ rpc = "removeDeletionFinalizer"
    /\ FinalizerRemoved

\* a step of the reconcile worker
WorkerStep == rpc' # rpc \/ idx' # idx

C17_LabelRemovedOnlyIfEnv ==
    [][(WorkerStep /\ nsLabel' # nsLabel)
          => (removeLabelEnv /\ rpc = "removeManagedByLabel")]_vars

\* a delete pass has completed with the variable unset, no user has touched
\* the labels, and ns2 still carries managed-by = ns1
C17_Witness ==
    /\ finalized
    /\ ~removeLabelEnv
    /\ incidents = 0
    /\ nsLabel["ns2"] = OwnNS

\* the positions of a delete pass in which it cleans up namespaced resources
NamespacedCleanup == {"deleteRoles", "deleteRoleBindings", "deleteFromSecret",
                      "removeManagedByLabel"}
\* the positions in which it removes the cluster-scoped RBAC
ClusterCleanup == {"deleteClusterRoles", "deleteClusterRoleBindings"}

\* C18: deletion takes at least two passes: the pass that deletes the
\* namespaced resources returns, and a later pass removes the cluster-scoped
\* RBAC: no pass goes on from the namespaced cleanup to the cluster-scoped
\* RBAC, and the cluster-scoped cleanup starts a pass of its own
C18_TwoPassDeletion ==
    [][(rpc' \in ClusterCleanup /\ rpc' # rpc)
          => /\ rpc \notin NamespacedCleanup
             /\ rpc \in ClusterCleanup \cup {"idle"}]_vars

\* C18 as amended: deletion takes one pass: the pass that has cleaned up the
\* namespaced resources goes on, without returning, to remove the
\* cluster-scoped RBAC and then the finalizer; no pass starts at the
\* cluster-scoped RBAC or at the finalizer
C18_SinglePassDeletion ==
    [][/\ (rpc' = "deleteClusterRoles" /\ rpc' # rpc)
             => rpc = "removeManagedByLabel"
       /\ (rpc' = "deleteClusterRoleBindings" /\ rpc' # rpc)
             => rpc = "deleteClusterRoles"
       /\ (rpc' = "removeDeletionFinalizer" /\ rpc' # rpc)
             => rpc = "deleteClusterRoleBindings"
       /\ FinalizerRemoved => rpc = "removeDeletionFinalizer"]_vars

\* a first delete pass, in which nothing failed, is about to remove the
\* finalizer: it has deleted the per-namespace RBAC of ns2 and the
\* cluster-scoped RBAC
C18_Witness ==
    /\ rpc = "removeDeletionFinalizer"
    /\ incidents = 0
    /\ Range(managed) = {"ns1", "ns2"}
    /\ roles = {}
    /\ clusterRoles = {}
    /\ clusterRoleBindings = {}
    /\ components # {}

(***************************************************************************)
(* setManagedNamespaces for the instances of several namespaces on         *)
(* arbitrary labels: a further specification, in which one reconciler is   *)
(* handed one instance after the other.                                    *)
(***************************************************************************)
\* setManagedNamespaces(cr) for an instance of the given namespace
setManagedNamespacesOf(namespace) ==
    /\ \E listErr \in BOOLEAN :
          /\ managed' = IF listErr THEN managed
                        ELSE managedNamespaces(namespace)
          /\ calc' = [namespace |-> namespace, err |-> listErr]
    /\ UNCHANGED <<clusterVars, queued, rpc, cr, crStale, idx, stepFailed,
                   finalized, watchVars, incidents, removeLabelEnv>>
    /\ UNCHANGED <<secretCall, run, flags, inspect, upd, app, dep,
                   nsObj, rbacCall>>

InitManaged ==
    /\ inst = [exists |-> TRUE, deleting |-> FALSE,
               fin |-> {ArgoCDDeletionFinalizer}]
    /\ nsLabel \in [Namespaces -> {NoLabel} \cup Owners]
    /\ nsExists \in {[n \in Namespaces |-> n = OwnNS \/ e] : e \in BOOLEAN}
    /\ roles = {}
    /\ roleBindings = {}
    /\ clusterRoles = {}
    /\ clusterRoleBindings = {}
    /\ secrets = [o \in Owners |-> NoSecret]
    /\ components = {}
    /\ queued = FALSE
    /\ rpc = "idle"
    /\ cr = NoCR
    /\ crStale = FALSE
    /\ managed = <<>>
    /\ idx = 0
    /\ stepFailed = FALSE
    /\ finalized = FALSE
    /\ nsEvents = <<>>
    /\ ppc = "idle"
    /\ pevt = NoEvent
    /\ pret = FALSE
    /\ incidents = 0
    /\ removeLabelEnv = FALSE
    /\ secretCall = NoCall
    /\ UnitsIdle

NextManaged == \E namespace \in Owners : setManagedNamespacesOf(namespace)

SpecManaged == InitManaged /\ [][NextManaged]_vars

\* the existing namespaces labelled managed-by = namespace
Labelled(namespace) ==
    {n \in Namespaces : nsExists[n] /\ nsLabel[n] = namespace}

\* C19: the managed-namespace set computed for an Instance is exactly the
\* namespaces labelled with the Instance's namespace together with that
\* namespace itself: a namespace labelled for another Instance, or not
\* labelled, is not in it, and a computation for another Instance replaces
\* the set of the previous one
C19_ManagedSetExact ==
    (calc.namespace # "" /\ ~calc.err) =>
        Range(managed) = Labelled(calc.namespace) \cup {calc.namespace}

\* the set has been computed for ns3 while a namespace is labelled for ns1:
\* whichever instance came first, the set holds no namespace of ns1
C19_Witness ==
    /\ calc = [namespace |-> "ns3", err |-> FALSE]
    /\ nsLabel["ns1"] = "ns3"
    /\ nsLabel["ns2"] = "ns1"
    /\ nsExists["ns2"]
    /\ Range(managed) = {"ns1", "ns3"}

\* the step ends a steady-state pass in which no step returned an error
SteadyPassSucceeds ==
    /\ rpc = "reconcileDeployments"
    /\ rpc' = "idle"
    /\ incidents' = incidents

\* the positions of a steady-state pass
SteadyPass == {"addDeletionFinalizer", "setManagedNamespaces", "reconcileRoles",
               "reconcileRoleBindings", "reconcileServiceAccounts",
               "reconcileSecrets", "reconcileDeployments"}

\* C20: after every successful reconcile pass the namespaces that carry
\* managed-by = the instance's namespace are exactly the namespaces the pass
\* computed as managed
C20_LabelledEqualsManaged ==
    [][SteadyPassSucceeds => Labelled(OwnNS) = Range(managed)]_vars

\* C20 as amended: the set a pass computes is, when it is computed, the
\* namespaces that carry managed-by = the instance's namespace together with
\* the instance's own namespace, which is a member without carrying the
\* label; and no step of a steady-state pass adds or removes the label
C20_ManagedIsLabelledPlusOwn ==
    [][/\ (rpc = "setManagedNamespaces" /\ rpc' = "reconcileRoles")
             => Range(managed') = Labelled(OwnNS) \cup {OwnNS}
       /\ (WorkerStep /\ rpc \in SteadyPass) => nsLabel' = nsLabel]_vars

\* a steady-state pass in which nothing failed and no label was edited is
\* about to succeed: ns2 carries the label, ns1 does not, and both are
\* managed
C20_Witness ==
    /\ rpc = "reconcileDeployments"
    /\ incidents = 0
    /\ managed = <<"ns2", "ns1">>
    /\ Labelled(OwnNS) = {"ns2"}

(***************************************************************************)
(* The source namespaces of one instance (namespace ns1): the computation  *)
(* setAppManagedNamespaces, of which the sources hold the contract and the *)
(* test only, and setManagedSourceNamespaces.  A further specification, in *)
(* which the user edits the declared list and the scope, and the instance  *)
(* of ns3 claims and releases namespaces.                                  *)
(***************************************************************************)
OtherInstance == "ns3"

\* the namespaces that carry the apps-managed-by label of the instance
SourceLabelled(a) == {n \in AppNamespaces : a.labels[n] = OwnNS}

\* a variant of allowedSourceNamespaces that takes over claimed namespaces
allowedTakingOver(a) ==
    IF ~a.clusterScoped THEN {}
    ELSE a.declared \cap AppNamespaces

\* a variant of allowedSourceNamespaces that does not look at the scope
allowedWhateverScope(a) ==
    {n \in a.declared \cap AppNamespaces : a.labels[n] # OtherInstance}

\* the source namespaces the instance may have: none unless it is
\* cluster-scoped; else those it declares that exist and that no other
\* instance has claimed
allowedSourceNamespaces(a) ==
    IF ~a.clusterScoped THEN {}
    ELSE {n \in a.declared \cap AppNamespaces : a.labels[n] # OtherInstance}

\* a variant of sourceLabelsAfter that removes no label
sourceLabelsAdded(a, allowed) ==
    [n \in AppNamespaces |-> IF n \in allowed THEN OwnNS ELSE a.labels[n]]

\* the labels once every allowed namespace carries the label of the instance
\* and no other namespace does
sourceLabelsAfter(a, allowed) ==
    [n \in AppNamespaces |->
        IF n \in allowed THEN OwnNS
        ELSE IF a.labels[n] = OwnNS THEN NoLabel
        ELSE a.labels[n]]

\* setAppManagedNamespaces: a failed List or Update is returned and the set
\* is not committed; a failed Update may follow Updates that succeeded
setAppManagedNamespaces ==
    /\ \E fail \in {"none", "list", "update"} :
          LET allowed == allowedSourceNamespaces(app)
              after == sourceLabelsAfter(app, allowed)
              changed == {n \in AppNamespaces : after[n] # app.labels[n]}
              ret == [fn |-> "setAppManagedNamespaces", err |-> fail # "none"]
          IN  CASE fail = "none" ->
                       app' = [app EXCEPT !.labels = after,
                                          !.sourceNamespaces = allowed,
                                          !.last = ret]
                [] fail = "list" -> app' = [app EXCEPT !.last = ret]
                [] fail = "update" ->
                       /\ changed # {}
                       /\ \E done \in SUBSET changed :
                             /\ done # changed
                             /\ app' = [app EXCEPT
                                   !.labels = [n \in AppNamespaces |->
                                                  IF n \in done THEN after[n]
                                                  ELSE app.labels[n]],
                                   !.last = ret]
    /\ UNCHANGED <<lifecycleVars, secretCall, run, flags, inspect, upd, calc,
                   dep, nsObj, rbacCall>>

\* setManagedSourceNamespaces(cr): the map is emptied, then filled from the
\* List of the namespaces labelled for cr.Namespace
setManagedSourceNamespaces ==
    /\ \E listErr \in BOOLEAN :
          app' = [app EXCEPT
                     !.managedSource = IF listErr THEN {}
                                       ELSE SourceLabelled(app),
                     !.last = [fn |-> "setManagedSourceNamespaces",
                               err |-> listErr]]
    /\ UNCHANGED <<lifecycleVars, secretCall, run, flags, inspect, upd, calc,
                   dep, nsObj, rbacCall>>

\* the user edits Spec.SourceNamespaces
EditSourceNamespaces ==
    /\ \E d \in SUBSET DeclarableNamespaces :
          /\ d # app.declared
          /\ app' = [app EXCEPT !.declared = d, !.last = NoApp.last]
    /\ UNCHANGED <<lifecycleVars, secretCall, run, flags, inspect, upd, calc,
                   dep, nsObj, rbacCall>>

\* the instance becomes cluster-scoped or namespace-scoped
ChangeScope ==
    /\ app' = [app EXCEPT !.clusterScoped = ~@, !.last = NoApp.last]
    /\ UNCHANGED <<lifecycleVars, secretCall, run, flags, inspect, upd, calc,
                   dep, nsObj, rbacCall>>

\* the instance of ns3 claims a namespace no instance has, or releases one
OtherInstanceLabels ==
    /\ \E n \in AppNamespaces :
          /\ app.labels[n] # OwnNS
          /\ app' = [app EXCEPT
                        !.labels[n] = IF @ = NoLabel THEN OtherInstance
                                      ELSE NoLabel,
                        !.last = NoApp.last]
    /\ UNCHANGED <<lifecycleVars, secretCall, run, flags, inspect, upd, calc,
                   dep, nsObj, rbacCall>>

InitSource ==
    /\ LifecycleIdle
    /\ run = NoRun
    /\ flags = NoFlags
    /\ inspect = NoInspect
    /\ upd = NoUpdate
    /\ calc = NoCalc
    /\ dep = NoDep
    /\ nsObj = NoNsObj
    /\ rbacCall = NoRBACCall
    /\ app \in {[NoApp EXCEPT !.labels = l, !.declared = d,
                              !.clusterScoped = c] :
                   l \in [AppNamespaces -> {NoLabel, OwnNS, OtherInstance}],
                   d \in SUBSET DeclarableNamespaces, c \in BOOLEAN}

NextSource ==
    \/ setAppManagedNamespaces
    \/ setManagedSourceNamespaces
    \/ EditSourceNamespaces
    \/ ChangeScope
    \/ OtherInstanceLabels

SpecSource == InitSource /\ [][NextSource]_vars

\* setAppManagedNamespaces has just returned without an error
ComputedSources ==
    app.last = [fn |-> "setAppManagedNamespaces", err |-> FALSE]

\* C21: after a successful source-namespace computation for a cluster-scoped
\* instance, the namespaces that carry its source-namespace label are the
\* declared ones that exist, and they are the in-memory set
C21_SourceLabelsEqualDeclared ==
    (ComputedSources /\ app.clusterScoped) =>
        /\ SourceLabelled(app) = app.declared \cap AppNamespaces
        /\ SourceLabelled(app) = app.sourceNamespaces

\* C21 as amended: after a successful source-namespace computation for a
\* cluster-scoped instance, the namespaces that carry its source-namespace
\* label are the declared ones that exist and that no other instance has
\* claimed, and they are the in-memory set: a namespace dropped from the
\* declared list has lost the label and a new one has gained it
C21_SourceLabelsEqualAllowed ==
    (ComputedSources /\ app.clusterScoped) =>
        /\ SourceLabelled(app) =
              {n \in app.declared \cap AppNamespaces :
                  app.labels[n] # OtherInstance}
        /\ SourceLabelled(app) = app.sourceNamespaces

\* the instance declares ns4 and ns5: after the computation ns4 carries the
\* label, ns2 (not declared) does not, and ns5, which does not exist, is not
\* in the set
C21_Witness ==
    /\ ComputedSources
    /\ app.clusterScoped
    /\ app.declared = {"ns4", "ns5"}
    /\ app.labels = [n \in AppNamespaces |->
                        IF n = "ns4" THEN OwnNS ELSE NoLabel]
    /\ app.sourceNamespaces = {"ns4"}

\* the step is a call of setAppManagedNamespaces that returns no error
ComputesSources ==
    /\ app' # app
    /\ app'.last = [fn |-> "setAppManagedNamespaces", err |-> FALSE]

\* C22: when a cluster-scoped instance declares a namespace that carries the
\* source-namespace label of another instance, the computation leaves that
\* label as it is and keeps the namespace out of the instance's set
C22_NoTakeOver ==
    [][ComputesSources =>
          \A n \in AppNamespaces :
             app.labels[n] = OtherInstance =>
                /\ app'.labels[n] = OtherInstance
                /\ n \notin app'.sourceNamespaces]_vars

\* the cluster-scoped instance declares ns2 and ns4, ns2 is claimed by the
\* instance of ns3, and the computation has returned: ns2 is still claimed
\* by ns3 and only ns4 is in the set
C22_Witness ==
    /\ ComputedSources
    /\ app.clusterScoped
    /\ app.declared = {"ns2", "ns4"}
    /\ app.labels["ns2"] = OtherInstance
    /\ app.labels["ns4"] = OwnNS
    /\ app.sourceNamespaces = {"ns4"}

\* C23: for a namespace-scoped instance the computed source-namespace set is
\* empty whatever is declared, and after the computation no namespace
\* carries the source-namespace label of the instance
C23_NamespaceScopedHasNone ==
    (ComputedSources /\ ~app.clusterScoped) =>
        /\ app.sourceNamespaces = {}
        /\ SourceLabelled(app) = {}

\* the namespace-scoped instance declares both existing namespaces and the
\* computation has returned
C23_Witness ==
    /\ ComputedSources
    /\ ~app.clusterScoped
    /\ app.declared = AppNamespaces
    /\ app.sourceNamespaces = {}
    /\ \A n \in AppNamespaces : app.labels[n] = NoLabel

\* the step is a call of a namespace-set computation that returns an error
SourcesCallFails == app' # app /\ app'.last.err

\* C24: if the List of the namespaces or the Update of a label fails while
\* the namespace sets are computed, the error is returned and the sets the
\* reconciler holds are what they were before the call
C24_SetsKeptOnError ==
    [][SourcesCallFails =>
          /\ app'.sourceNamespaces = app.sourceNamespaces
          /\ app'.managedSource = app.managedSource]_vars

\* setAppManagedNamespaces keeps its set when it fails
C24_AppSetKeptOnError ==
    [][SourcesCallFails => app'.sourceNamespaces = app.sourceNamespaces]_vars

\* setManagedNamespaces keeps r.ManagedNamespaces when its List fails
C24_ManagedKeptOnError ==
    [][calc'.err => managed' = managed]_vars

(***************************************************************************)
(* The notifications dependents: reconcileNotificationsController,         *)
(* deleteNotificationsResources and DeleteRole, each exercised on its own  *)
(* against a cluster on which another client creates and deletes the same  *)
(* objects.  A further specification.  Every per-kind reconciler makes its *)
(* Get in one step and the call the Get leads to in the next.              *)
(***************************************************************************)

DepFunctions == {"reconcileNotificationsController",
                 "deleteNotificationsResources", "DeleteRole",
                 "reconcileConfigMap"}

\* the per-kind calls a function makes, in order
DepSteps(fn) ==
    CASE fn = "reconcileNotificationsController" ->
             <<"ServiceAccount", "Role", "RoleBinding", "ConfigMap",
               "Secret", "Deployment">>
      [] fn = "deleteNotificationsResources" ->
             <<"Deployment", "Secret", "ConfigMap", "RoleBinding", "Role",
               "ServiceAccount">>
      [] fn = "reconcileConfigMap" -> <<"ConfigMap">>
      [] OTHER -> <<"Role">>

\* r.Client.Delete of the dependent k
ClientDelete(d, k, fail) ==
    IF fail THEN [d EXCEPT !.op = "Delete", !.err = "Failed"]
    ELSE IF ~d.present[k] THEN [d EXCEPT !.op = "Delete", !.err = "NotFound"]
    ELSE [d EXCEPT !.present[k] = FALSE,
                   !.roleRef = IF k = "RoleBinding" THEN "desired" ELSE @]

\* r.Client.Create of the dependent k, as the reconciler wants it
ClientCreate(d, k, fail) ==
    IF fail THEN [d EXCEPT !.op = "Create", !.err = "Failed"]
    ELSE IF d.present[k]
    THEN [d EXCEPT !.op = "Create", !.err = "AlreadyExists"]
    ELSE [d EXCEPT !.present[k] = TRUE,
                   !.roleRef = IF k = "RoleBinding" THEN "desired" ELSE @]

\* r.Client.Update of the dependent k
ClientUpdate(d, k, fail) ==
    IF fail THEN [d EXCEPT !.op = "Update", !.err = "Failed"]
    ELSE IF ~d.present[k] THEN [d EXCEPT !.op = "Update", !.err = "NotFound"]
    ELSE d

\* the per-kind call returns: an error ends the function, otherwise the
\* function goes on to its next call or returns nil
DepReturn(d) ==
    IF d.err # "" THEN [d EXCEPT !.todo = <<>>, !.phase = "", !.ret = "err"]
    ELSE [d EXCEPT !.todo = Tail(d.todo), !.phase = "get",
                   !.ret = IF Len(d.todo) = 1 THEN "nil" ELSE "running"]

\* a nil pointer is dereferenced
DepPanic(d) == [d EXCEPT !.todo = <<>>, !.phase = "", !.ret = "panic"]

\* the pointers reconcileNotificationsServiceAccount and
\* reconcileNotificationsRole hand back to reconcileNotificationsController
DepPointers(d, k) ==
    IF d.fn # "reconcileNotificationsController" THEN d
    ELSE LET p == IF d.enabled /\ d.err = "" THEN "obj" ELSE "nil"
         IN CASE k = "ServiceAccount" -> [d EXCEPT !.sa = p]
              [] k = "Role" -> [d EXCEPT !.role = p]
              [] OTHER -> d

\* reconcileNotificationsRoleBinding when the RoleRef of the existing
\* RoleBinding is not the desired one: the RoleBinding is deleted
replaceRoleBinding(d, k, fail) == ClientDelete(d, k, fail)

\* the call the per-kind reconciler of k makes after its Get, if any;
\* differs: the Rules of the Role or the Subjects of the RoleBinding are not
\* the desired ones
DepCallAfterGet(d, k, differs, fail) ==
    CASE ~d.found /\ ~d.enabled -> d
      [] ~d.found /\ d.enabled -> ClientCreate(d, k, fail)
      [] d.found /\ ~d.enabled -> ClientDelete(d, k, fail)
      [] OTHER ->
         CASE k = "Role" /\ differs -> ClientUpdate(d, k, fail)
           [] k = "RoleBinding" /\ d.foundRef = "stale" ->
                  replaceRoleBinding(d, k, fail)
           [] k = "RoleBinding" /\ differs -> ClientUpdate(d, k, fail)
           [] OTHER -> d

\* NotificationsReconciler.reconcileConfigMap after GetNamespace: in a
\* terminating namespace deleteConfigMap, whose error is logged while the
\* function returns the nil error of GetNamespace; otherwise the ConfigMap
\* is created if it is not there
reconcileConfigMapAfterGet(d, k, fail) ==
    IF d.terminating
    THEN IF fail THEN [d EXCEPT !.op = "Delete", !.swallowed = TRUE]
         ELSE [d EXCEPT !.present[k] = FALSE]
    ELSE IF d.found THEN d
    ELSE ClientCreate(d, k, fail)

\* one per-kind call of a pass that no error and no other client interrupts
DepKindAlone(d, k) ==
    IF k \notin Dependents THEN d
    ELSE DepPointers(
            DepCallAfterGet([d EXCEPT !.found = d.present[k],
                                      !.foundRef = d.roleRef],
                            k, FALSE, FALSE), k)

\* the pass that no error and no other client interrupts
RECURSIVE DepPassAlone(_, _)
DepPassAlone(d, steps) ==
    IF steps = <<>> THEN d
    ELSE DepPassAlone(DepKindAlone(d, Head(steps)), Tail(steps))

\* a function is called on its own; the cluster state is remembered as the
\* origin unless the call repeats one that has just returned an error
DepBegin ==
    /\ dep.ret # "running"
    /\ \E fn \in DepFunctions : \E fail \in BOOLEAN :
       \E terminating \in BOOLEAN :
          LET retry == dep.fn = fn /\ dep.ret = "err" /\ dep.tracked
              d == [dep EXCEPT
                      !.fn = fn, !.found = FALSE, !.foundRef = "desired",
                      !.op = "", !.err = "", !.swallowed = FALSE,
                      !.sa = IF fn = "deleteNotificationsResources"
                             THEN "obj" ELSE "nil",
                      !.role = IF fn = "deleteNotificationsResources"
                               THEN "obj" ELSE "nil",
                      !.terminating = fn = "reconcileConfigMap" /\ terminating,
                      !.tracked = TRUE,
                      !.retried = retry,
                      !.origin = IF retry THEN @
                                 ELSE [present |-> dep.present,
                                       roleRef |-> dep.roleRef]]
          IN /\ fn # "reconcileConfigMap" => ~terminating
             /\ fn # "deleteNotificationsResources" => ~fail
             /\ dep' = IF fail
                       THEN [d EXCEPT !.todo = <<>>, !.phase = "",
                                      !.op = "Get", !.err = "Failed",
                                      !.ret = "err"]
                       ELSE [d EXCEPT !.todo = DepSteps(fn), !.phase = "get",
                                      !.ret = "running"]
    /\ UNCHANGED <<lifecycleVars, secretCall, run, flags, inspect, upd, calc,
                   app, nsObj, rbacCall>>

\* the per-kind reconciler at the head of the list starts: it builds the
\* object it wants and makes its Get; what a Get of reconcileConfigMap that
\* fails leaves in existingConfigMap, which is then dereferenced, is not
\* known
DepGet ==
    /\ dep.ret = "running"
    /\ dep.phase = "get"
    /\ LET k == Head(dep.todo)
           failed == [dep EXCEPT !.op = "Get", !.err = "Failed"]
       IN \E fail \in BOOLEAN : \E isNil \in BOOLEAN :
          /\ isNil => fail /\ dep.fn = "reconcileConfigMap"
                           /\ ~dep.terminating
          /\ dep' =
               CASE dep.fn = "reconcileConfigMap" ->
                      IF fail
                      THEN IF isNil THEN DepPanic(failed) ELSE DepReturn(failed)
                      ELSE IF ~dep.terminating /\ dep.present[k]
                      THEN DepReturn([dep EXCEPT !.found = TRUE])
                      ELSE [dep EXCEPT !.found = dep.present[k],
                                       !.phase = "act"]
                 [] k = "RoleBinding"
                      /\ (dep.role = "nil" \/ dep.sa = "nil") ->
                      DepPanic(dep)
                 [] k = "Deployment" /\ dep.sa = "nil" -> DepPanic(dep)
                 [] k \in {"Secret", "Deployment"} ->
                      DepReturn(IF fail THEN failed ELSE dep)
                 [] fail -> DepReturn(failed)
                 [] dep.fn = "DeleteRole" /\ ~dep.present[k] -> DepReturn(dep)
                 [] OTHER ->
                      [dep EXCEPT !.found = dep.present[k],
                                  !.foundRef = dep.roleRef, !.phase = "act"]
    /\ UNCHANGED <<lifecycleVars, secretCall, run, flags, inspect, upd, calc,
                   app, nsObj, rbacCall>>

\* the per-kind reconciler goes on after its Get and returns
DepAct ==
    /\ dep.ret = "running"
    /\ dep.phase = "act"
    /\ LET k == Head(dep.todo)
       IN \E fail \in BOOLEAN : \E differs \in BOOLEAN :
          dep' = CASE dep.fn = "DeleteRole" ->
                        DepReturn(ClientDelete(dep, k, fail))
                   [] dep.fn = "reconcileConfigMap" ->
                        DepReturn(reconcileConfigMapAfterGet(dep, k, fail))
                   [] OTHER ->
                        DepReturn(DepPointers(
                           DepCallAfterGet(dep, k, differs, fail), k))
    /\ UNCHANGED <<lifecycleVars, secretCall, run, flags, inspect, upd, calc,
                   app, nsObj, rbacCall>>

\* another client creates or deletes one of the dependents; a RoleBinding
\* it creates may refer to another Role than the desired one
OtherClient ==
    /\ \E k \in Dependents : \E ref \in {"desired", "stale"} :
          /\ ref = "stale" => k = "RoleBinding" /\ ~dep.present[k]
          /\ dep' = [dep EXCEPT !.present[k] = ~dep.present[k],
                                !.roleRef = IF k = "RoleBinding"
                                            THEN ref ELSE @,
                                !.tracked = FALSE, !.retried = FALSE]
    /\ UNCHANGED <<lifecycleVars, secretCall, run, flags, inspect, upd, calc,
                   app, nsObj, rbacCall>>

\* the user turns Spec.Notifications.Enabled on or off between two calls
ToggleNotifications ==
    /\ dep.ret # "running"
    /\ dep' = [dep EXCEPT !.enabled = ~dep.enabled, !.tracked = FALSE,
                          !.retried = FALSE]
    /\ UNCHANGED <<lifecycleVars, secretCall, run, flags, inspect, upd, calc,
                   app, nsObj, rbacCall>>

InitDependents ==
    /\ LifecycleIdle
    /\ secretCall = NoCall
    /\ run = NoRun
    /\ flags = NoFlags
    /\ inspect = NoInspect
    /\ upd = NoUpdate
    /\ calc = NoCalc
    /\ app = NoApp
    /\ nsObj = NoNsObj
    /\ rbacCall = NoRBACCall
    /\ \E p \in [Dependents -> BOOLEAN] : \E e \in BOOLEAN :
       \E ref \in {"desired", "stale"} :
          /\ ref = "stale" => p["RoleBinding"]
          /\ dep = [NoDep EXCEPT !.present = p, !.enabled = e, !.roleRef = ref,
                                 !.origin = [present |-> p, roleRef |-> ref]]

NextDependents ==
    \/ DepBegin
    \/ DepGet
    \/ DepAct
    \/ OtherClient
    \/ ToggleNotifications

SpecDependents == InitDependents /\ [][NextDependents]_vars

\* C25: every delete operation returns success when its target does not
\* exist at the moment the delete is applied, whether it was already absent
\* or was removed by another client after the operation looked it up: a
\* not-found result of a delete is never returned as an error
C25_DeleteOfAbsentSucceeds ==
    ~(dep.ret = "err" /\ dep.op = "Delete" /\ dep.err = "NotFound")

\* a delete operation that finds its target absent at its lookup succeeds
C25_AbsentAtLookupSucceeds ==
    [][(/\ dep.fn = "DeleteRole"
        /\ dep.phase = "get"
        /\ ~dep.present["Role"]
        /\ dep'.phase # "get"
        /\ dep'.op # "Get") => dep'.ret = "nil"]_vars

\* C26: for every combination of the toggle and of the presence of each
\* dependent, a reconcile or delete pass ends by returning success or an
\* error and never dereferences an absent object
C26_NeverPanics == dep.ret # "panic"

\* deleteNotificationsResources never dereferences a nil pointer
C26_DeletePathNeverPanics ==
    dep.fn = "deleteNotificationsResources" => dep.ret # "panic"

\* with notifications enabled reconcileNotificationsController never
\* dereferences a nil pointer
C26_EnabledNeverPanics ==
    [][(/\ dep.fn = "reconcileNotificationsController"
        /\ dep.enabled
        /\ dep.ret = "running") => dep'.ret # "panic"]_vars

\* the step is one of the namespace watch predicate
PredicateStep == PredicateStarts \/ ppc' # ppc

\* C27: the namespace watch predicate never creates or updates a Role or a
\* RoleBinding: for every update or delete event all it does to the RBAC
\* objects is delete some of them
C27_PredicateOnlyDeletesRBAC ==
    [][PredicateStep =>
          /\ roles' \subseteq roles
          /\ roleBindings' \subseteq roleBindings
          /\ UNCHANGED <<clusterRoles, clusterRoleBindings>>]_vars

\* the predicate stands between its two loops for an update event: the Role
\* of the namespace is deleted, its RoleBinding not yet
C27_Witness ==
    /\ ppc = "bindings"
    /\ pevt.kind = "update"
    /\ ~inst.deleting
    /\ rpc = "idle"
    /\ <<pevt.name, pevt.old>> \notin roles
    /\ <<pevt.name, pevt.old>> \in roleBindings

(***************************************************************************)
(* The loop body of removeManagedByLabelFromNamespaces on one Namespace    *)
(* that other clients edit and the user deletes: Get, delete the label in  *)
(* the copy, Update.  A further specification.  The API server refuses an  *)
(* Update whose resourceVersion is not the stored one.                     *)
(***************************************************************************)

\* a variant of the label removal that clears the label map of the copy
labelsCleared(labels) == [k \in DOMAIN labels |-> NoLabel]

\* delete(ns.Labels, common.ArgoCDManagedByLabel)
labelsAfterDelete(labels) == [labels EXCEPT ![ArgoCDManagedByLabel] = NoLabel]

\* r.Client.Get of the Namespace and the two checks of its labels
removeLabelGet ==
    /\ nsObj.pc = ""
    /\ nsObj.obj.rv < MaxVersion
    /\ \E fail \in BOOLEAN :
          nsObj' =
            IF fail \/ ~nsObj.exists THEN [nsObj EXCEPT !.ret = "err"]
            ELSE IF nsObj.obj.labels[ArgoCDManagedByLabel] # OwnNS
            THEN [nsObj EXCEPT !.ns = nsObj.obj, !.ret = "continue"]
            ELSE [nsObj EXCEPT !.ns = nsObj.obj, !.pc = "got", !.ret = ""]
    /\ UNCHANGED <<lifecycleVars, secretCall, run, flags, inspect, upd, calc,
                   app, dep, rbacCall>>

\* the label is deleted in the copy and the copy is written with Update; an
\* Update that fails is logged
removeLabelUpdate ==
    /\ nsObj.pc = "got"
    /\ LET ns == [nsObj.ns EXCEPT !.labels = labelsAfterDelete(@)]
       IN \E fail \in BOOLEAN :
          nsObj' =
            IF fail \/ ~nsObj.exists \/ ns.rv # nsObj.obj.rv
            THEN [nsObj EXCEPT !.pc = "", !.ret = "logged"]
            ELSE [nsObj EXCEPT !.obj = [ns EXCEPT !.rv = @ + 1],
                               !.pc = "", !.ret = "updated"]
    /\ UNCHANGED <<lifecycleVars, secretCall, run, flags, inspect, upd, calc,
                   app, dep, rbacCall>>

\* another client sets a label or the finalizers of the Namespace
OtherEditsNamespace ==
    /\ nsObj.exists
    /\ nsObj.obj.rv < MaxVersion
    /\ \/ \E k \in LabelKeys : \E v \in {NoLabel} \cup Owners :
             /\ v # nsObj.obj.labels[k]
             /\ nsObj' = [nsObj EXCEPT !.obj.labels[k] = v,
                                       !.obj.rv = @ + 1, !.ret = ""]
       \/ \E f \in {{}, {"kubernetes"}} :
             /\ f # nsObj.obj.finalizers
             /\ nsObj' = [nsObj EXCEPT !.obj.finalizers = f,
                                       !.obj.rv = @ + 1, !.ret = ""]
    /\ UNCHANGED <<lifecycleVars, secretCall, run, flags, inspect, upd, calc,
                   app, dep, rbacCall>>

\* the user deletes the Namespace
UserDeletesNamespace ==
    /\ nsObj.exists
    /\ nsObj' = [nsObj EXCEPT !.exists = FALSE, !.ret = ""]
    /\ UNCHANGED <<lifecycleVars, secretCall, run, flags, inspect, upd, calc,
                   app, dep, rbacCall>>

InitNamespace ==
    /\ LifecycleIdle
    /\ secretCall = NoCall
    /\ run = NoRun
    /\ flags = NoFlags
    /\ inspect = NoInspect
    /\ upd = NoUpdate
    /\ calc = NoCalc
    /\ app = NoApp
    /\ dep = NoDep
    /\ rbacCall = NoRBACCall
    /\ nsObj \in {[NoNsObj EXCEPT !.obj.labels = l, !.ns.labels = l] :
                     l \in [LabelKeys -> {NoLabel} \cup Owners]}

NextNamespace ==
    \/ removeLabelGet
    \/ removeLabelUpdate
    \/ OtherEditsNamespace
    \/ UserDeletesNamespace

SpecNamespace == InitNamespace /\ [][NextNamespace]_vars

\* C28: the operator never deletes a Namespace, and all it ever changes of
\* a managed Namespace is the managed-by entry of its label map, which it
\* removes: every other label and every other field is left as it was
C28_OnlyLabelChanges ==
    [][(removeLabelGet \/ removeLabelUpdate) =>
          /\ nsObj'.exists = nsObj.exists
          /\ nsObj'.obj.finalizers = nsObj.obj.finalizers
          /\ \A k \in LabelKeys \ {ArgoCDManagedByLabel} :
                nsObj'.obj.labels[k] = nsObj.obj.labels[k]
          /\ nsObj'.obj.labels[ArgoCDManagedByLabel] \in
                {nsObj.obj.labels[ArgoCDManagedByLabel], NoLabel}]_vars

\* the label has just been removed from a Namespace that carries a label of
\* the user
C28_Witness ==
    /\ nsObj.ret = "updated"
    /\ nsObj.exists
    /\ nsObj.obj.labels[ArgoCDManagedByLabel] = NoLabel
    /\ nsObj.obj.labels["team"] # NoLabel
    /\ nsObj.obj.rv > 1

\* no step of the worker or of the watch predicate deletes a Namespace
C28_NamespacesNeverDeleted ==
    [][(WorkerStep \/ PredicateStep) => nsExists' = nsExists]_vars

\* a call of deleteManagedNamespaceFromClusterSecret has returned
SecretCalled == secretCall.owner # ""

\* the list the call would store: the stored one without the namespace
DesiredNamespaces ==
    namespacesAfterDelete(secretCall.before, Str(secretCall.source))

\* C29: when the namespace list stored in the cluster secret already equals
\* the desired list (the namespace to remove is not listed, say), the call
\* issues no Update on the secret: an Update is written only when the
\* stored list differs
C29_NoUpdateWhenEqual ==
    (SecretCalled /\ secretCall.present /\ secretCall.fail # "list"
       /\ DesiredNamespaces = secretCall.before) => ~secretCall.updated

\* C30: when the instance has no cluster secret the call returns success
\* and writes nothing; every failure to read or to update the secret is
\* returned to the caller as an error
C30_AbsentSecretIsSuccess ==
    SecretCalled =>
       /\ (~secretCall.present /\ secretCall.fail = "none") =>
             /\ ~secretCall.err
             /\ ~secretCall.updated
             /\ secrets[secretCall.owner] = NoSecret
       /\ secretCall.fail # "none" => secretCall.err

\* a call for an instance that has no cluster secret has returned
C30_Witness ==
    /\ SecretCalled
    /\ ~secretCall.present
    /\ secretCall.fail = "none"
    /\ ~secretCall.err

\* C39: the managed-namespace collection computed for an Instance holds each
\* namespace at most once, whichever namespaces carry the managed-by label,
\* the Instance's own namespace labelled with its own name included
C39_NoNamespaceTwice ==
    \A i, j \in 1..Len(managed) : managed[i] = managed[j] => i = j

\* the collection holds each namespace at most once as long as the
\* Instance's own namespace does not carry the label with its own name
C39_OnceUnlessOwnLabelled ==
    (calc.namespace # "" /\ ~calc.err
       /\ (calc.namespace \in Namespaces => nsLabel[calc.namespace] # calc.namespace))
       => C39_NoNamespaceTwice

(***************************************************************************)
(* deleteRBACsForNamespace and deleteClusterResources, each called on its  *)
(* own on a cluster on which several instances hold RBAC.  A further       *)
(* specification.  A Role or RoleBinding is <<namespace, instance          *)
(* namespace>>; the ClusterRoles of an instance stand for the instance     *)
(* <<name, namespace>> they were created for.                              *)
(***************************************************************************)

\* the namespaces the cleanup runs for and the instances holding RBAC there
RBACNamespaces == {"ns2", "ns3"}
RBACOwners == {"ns1", "ns2"}
\* what the old managing instance ns1 holds in both namespaces and what the
\* instance installed in ns2 holds there
RBACObjects == {<<"ns2", "ns1">>, <<"ns2", "ns2">>, <<"ns3", "ns1">>}
\* two instances of the same name in different namespaces
Instances == {<<"argocd", "ns1">>, <<"argocd", "ns3">>}

\* DefaultLabels(name): app.kubernetes.io/managed-by of what an instance owns
ManagedByOf(i) == i[1]

\* argocdInstanceSelector(cr.Name) applied by filterObjectsBySelector
selectedByInstance(objects, argocd) ==
    {i \in objects : ManagedByOf(i) = ManagedByOf(argocd)}

\* the call repeats the one that has just returned nil
RepeatsCall(fn, args) ==
    rbacCall.fn = fn /\ rbacCall.args = args /\ rbacCall.ret = "nil"

\* deleteRBACsForNamespace(ownerNS, sourceNS, k8sClient); fail names the List
\* that fails, if any, and failedRoles, failedBindings the Delete calls that
\* fail, which are logged
deleteRBACsForNamespace(ownerNS, sourceNS) ==
    \E fail \in {"none", "listRoles", "listRoleBindings"} :
    \E failedRoles \in SUBSET ListedRoles(sourceNS) :
    \E failedBindings \in SUBSET ListedRoleBindings(sourceNS) :
       /\ fail = "listRoles" => failedRoles = {} /\ failedBindings = {}
       /\ fail = "listRoleBindings" => failedBindings = {}
       /\ roles' = IF fail = "listRoles" THEN roles
                   ELSE rolesAfterDelete(sourceNS, failedRoles)
       /\ roleBindings' = IF fail # "none" THEN roleBindings
                          ELSE roleBindingsAfterDelete(sourceNS, failedBindings)
       /\ rbacCall' =
            [rbacCall EXCEPT
               !.fn = "deleteRBACsForNamespace",
               !.args = <<ownerNS, sourceNS>>,
               !.deleted = \/ (fail # "listRoles" /\ ListedRoles(sourceNS) # {})
                           \/ (fail = "none" /\ ListedRoleBindings(sourceNS) # {}),
               !.failed = fail # "none" \/ failedRoles # {} \/ failedBindings # {},
               !.ret = IF fail = "none" THEN "nil" ELSE "err",
               !.again = RepeatsCall("deleteRBACsForNamespace",
                                     <<ownerNS, sourceNS>>)]
       /\ UNCHANGED <<inst, nsLabel, nsExists, clusterRoles,
                      clusterRoleBindings, secrets, components>>
       /\ UNCHANGED <<workerVars, watchVars, incidents, removeLabelEnv>>
       /\ UNCHANGED <<secretCall, run, flags, inspect, upd, calc, app, dep,
                      nsObj>>

\* deleteClusterResources(cr); fail names the call that returns an error
deleteClusterResources(argocd) ==
    \E fail \in {"none", "roles", "bindings"} :
       LET crs == selectedByInstance(rbacCall.clusterRoles, argocd)
           crbs == selectedByInstance(rbacCall.clusterRoleBindings, argocd)
       IN /\ rbacCall' =
               [rbacCall EXCEPT
                  !.clusterRoles = IF fail = "roles" THEN @ ELSE @ \ crs,
                  !.clusterRoleBindings = IF fail = "none" THEN @ \ crbs ELSE @,
                  !.fn = "deleteClusterResources",
                  !.args = argocd,
                  !.deleted = \/ (fail # "roles" /\ crs # {})
                              \/ (fail = "none" /\ crbs # {}),
                  !.failed = fail # "none",
                  !.ret = IF fail = "none" THEN "nil" ELSE "err",
                  !.again = RepeatsCall("deleteClusterResources", argocd)]
          /\ UNCHANGED <<lifecycleVars, secretCall, run, flags, inspect, upd,
                         calc, app, dep, nsObj>>

\* an instance creates Roles, RoleBindings, ClusterRoles or
\* ClusterRoleBindings of its own
InstanceCreatesRBAC ==
    /\ \/ /\ \E o \in RBACObjects \ roles : roles' = roles \cup {o}
          /\ UNCHANGED roleBindings
          /\ rbacCall' = [rbacCall EXCEPT !.fn = "", !.args = <<>>,
                                          !.ret = "", !.again = FALSE]
       \/ /\ \E o \in RBACObjects \ roleBindings :
                roleBindings' = roleBindings \cup {o}
          /\ UNCHANGED roles
          /\ rbacCall' = [rbacCall EXCEPT !.fn = "", !.args = <<>>,
                                          !.ret = "", !.again = FALSE]
       \/ /\ \E i \in Instances \ rbacCall.clusterRoles :
                rbacCall' = [rbacCall EXCEPT !.clusterRoles = @ \cup {i},
                                             !.clusterRoleBindings = @ \cup {i},
                                             !.fn = "", !.args = <<>>,
                                             !.ret = "", !.again = FALSE]
          /\ UNCHANGED <<roles, roleBindings>>
    /\ UNCHANGED <<inst, nsLabel, nsExists, clusterRoles, clusterRoleBindings,
                   secrets, components>>
    /\ UNCHANGED <<workerVars, watchVars, incidents, removeLabelEnv>>
    /\ UNCHANGED <<secretCall, run, flags, inspect, upd, calc, app, dep,
                   nsObj>>

InitRBAC ==
    /\ inst = [exists |-> TRUE, deleting |-> FALSE,
               fin |-> {ArgoCDDeletionFinalizer}]
    /\ nsLabel = [n \in Namespaces |-> NoLabel]
    /\ nsExists = [n \in Namespaces |-> TRUE]
    /\ roles \in SUBSET RBACObjects
    /\ roleBindings = roles
    /\ clusterRoles = {}
    /\ clusterRoleBindings = {}
    /\ secrets = [o \in Owners |-> NoSecret]
    /\ components = {}
    /\ queued = FALSE
    /\ rpc = "idle"
    /\ cr = NoCR
    /\ crStale = FALSE
    /\ managed = <<>>
    /\ idx = 0
    /\ stepFailed = FALSE
    /\ finalized = FALSE
    /\ nsEvents = <<>>
    /\ ppc = "idle"
    /\ pevt = NoEvent
    /\ pret = FALSE
    /\ incidents = 0
    /\ removeLabelEnv = FALSE
    /\ secretCall = NoCall
    /\ run = NoRun
    /\ flags = NoFlags
    /\ inspect = NoInspect
    /\ upd = NoUpdate
    /\ calc = NoCalc
    /\ app = NoApp
    /\ dep = NoDep
    /\ nsObj = NoNsObj
    /\ rbacCall \in {[NoRBACCall EXCEPT !.clusterRoles = c,
                                        !.clusterRoleBindings = c] :
                        c \in SUBSET Instances}

NextRBAC ==
    \/ \E ownerNS \in RBACOwners : \E sourceNS \in RBACNamespaces :
          deleteRBACsForNamespace(ownerNS, sourceNS)
    \/ \E i \in Instances : deleteClusterResources(i)
    \/ InstanceCreatesRBAC

SpecRBAC == InitRBAC /\ [][NextRBAC]_vars

\* the step is a call of deleteRBACsForNamespace
CleanupCalled ==
    /\ rbacCall'.fn = "deleteRBACsForNamespace"
    /\ <<roles, roleBindings, rbacCall>>' # <<roles, roleBindings, rbacCall>>

\* C31: RBAC propagation is idempotent: of two calls in a row for the same
\* namespace with the same shouldExist the second, when none of its API
\* calls fails, leaves the cluster as the first left it, issues no delete
\* and returns success
C31_SecondCallIsNoOp ==
    [][(CleanupCalled /\ rbacCall'.again /\ ~rbacCall'.failed) =>
          /\ roles' = roles
          /\ roleBindings' = roleBindings
          /\ ~rbacCall'.deleted
          /\ rbacCall'.ret = "nil"]_vars

\* the second call is a no-op when no Delete of the first one failed
C31_NoOpAfterCleanFirst ==
    [][(CleanupCalled /\ rbacCall'.again /\ ~rbacCall'.failed
          /\ ~rbacCall.failed) =>
          /\ roles' = roles
          /\ roleBindings' = roleBindings
          /\ ~rbacCall'.deleted]_vars

\* C36: the cleanup run for namespace X on behalf of the old managing
\* instance O deletes only Roles and RoleBindings that O created in X: those
\* another instance holds in X are still there afterwards
C36_OnlyObjectsOfOldInstance ==
    [][CleanupCalled =>
          \A o \in (roles \ roles') \cup (roleBindings \ roleBindings') :
             o = <<rbacCall'.args[2], rbacCall'.args[1]>>]_vars

\* the cleanup deletes nothing outside the namespace it runs for
C36_OnlyInNamespace ==
    [][CleanupCalled =>
          \A o \in (roles \ roles') \cup (roleBindings \ roleBindings') :
             o[1] = rbacCall'.args[2]]_vars

\* C37: deleteClusterResources for an Instance deletes only the ClusterRoles
\* and ClusterRoleBindings of that Instance: those of another Instance of
\* the same name in a different namespace are left untouched
C37_OnlyClusterRBACOfInstance ==
    [][rbacCall'.fn = "deleteClusterResources" =>
          /\ rbacCall.clusterRoles \ rbacCall'.clusterRoles
                \subseteq {rbacCall'.args}
          /\ rbacCall.clusterRoleBindings \ rbacCall'.clusterRoleBindings
                \subseteq {rbacCall'.args}]_vars

\* C38: deleteRBACsForNamespace returns success only if no Role and no
\* RoleBinding with the part-of label is left in the namespace when it
\* returns; if a Delete fails it returns an error
C38_SuccessMeansNoneLeft ==
    (rbacCall.fn = "deleteRBACsForNamespace" /\ rbacCall.ret = "nil") =>
       /\ ListedRoles(rbacCall.args[2]) = {}
       /\ ListedRoleBindings(rbacCall.args[2]) = {}
       /\ ~rbacCall.failed

\* a List that fails is returned as an error
C38_ListErrorReturned ==
    (rbacCall.fn = "deleteRBACsForNamespace" /\ rbacCall.ret = "nil"
       /\ ~rbacCall.failed) =>
       /\ ListedRoles(rbacCall.args[2]) = {}
       /\ ListedRoleBindings(rbacCall.args[2]) = {}

\* the cluster a pass that nothing interrupts leaves when it starts from
\* what one uninterrupted pass, no call failing, makes of the resources the
\* first pass found
PassAloneResult ==
    DepPassAlone([dep EXCEPT !.present = dep.origin.present,
                             !.roleRef = dep.origin.roleRef,
                             !.err = ""], DepSteps(dep.fn))

\* a pass aborted by an error has been repeated, no other client acting,
\* until a pass returned nil
RetriedToSuccess ==
    /\ dep.fn \in {"reconcileNotificationsController",
                   "deleteNotificationsResources"}
    /\ dep.tracked
    /\ dep.retried
    /\ dep.ret = "nil"

\* C33: if a pass is aborted by an error after some of its steps were
\* applied, repeating it with the same desired spec until one pass succeeds
\* ends in the resource state of a single uninterrupted successful pass
C33_RetriesConverge ==
    RetriedToSuccess =>
       /\ dep.present = PassAloneResult.present
       /\ dep.roleRef = PassAloneResult.roleRef

\* the retries converge when the RoleBinding the first pass found, if any,
\* had the desired RoleRef
C33_ConvergeUnlessReplaced ==
    (RetriedToSuccess /\ dep.origin.roleRef = "desired") =>
       /\ dep.present = PassAloneResult.present
       /\ dep.roleRef = PassAloneResult.roleRef

\* reconcileNotificationsRoleBinding goes on after a Get that found a
\* RoleBinding whose RoleRef is not the desired one, and returns nil
ReplacesRoleBinding ==
    /\ dep.fn \in {"reconcileNotificationsController",
                   "deleteNotificationsResources"}
    /\ dep.phase = "act"
    /\ Head(dep.todo) = "RoleBinding"
    /\ dep.enabled
    /\ dep.found
    /\ dep.foundRef = "stale"
    /\ dep'.phase # "act"
    /\ dep'.err = ""

\* C35: when the RoleRef of the existing notifications RoleBinding differs
\* from the desired one, a reconcileNotificationsRoleBinding call that
\* returns success leaves a RoleBinding with the desired RoleRef in place
C35_RoleBindingReplaced ==
    [][ReplacesRoleBinding =>
          /\ dep'.present["RoleBinding"]
          /\ dep'.roleRef = "desired"]_vars

\* C40: when the namespace of the Instance is terminating and the delete of
\* the notifications ConfigMap fails, reconcileConfigMap returns that error
\* to its caller: it returns success on this path only if the ConfigMap was
\* deleted or was already absent
C40_DeleteErrorReturned ==
    (dep.fn = "reconcileConfigMap" /\ dep.terminating /\ dep.ret = "nil")
       => ~dep.swallowed

(***************************************************************************)
(* The round trip of a namespace through the managed set: the lifecycle    *)
(* started with no namespace carrying the managed-by label, so that every  *)
(* namespace the Instance comes to manage was added by a label edit.       *)
(***************************************************************************)
InitRoundTrip ==
    /\ Init
    /\ \A n \in Namespaces : nsLabel[n] = NoLabel

SpecRoundTrip == InitRoundTrip /\ [][Next]_vars

\* the namespace that makes the round trip
Visitor == "ns2"

\* the last event the watch filtered is the removal of the Instance's label
\* from the namespace, and the predicate has returned
RemovalHandled ==
    /\ pevt = [kind |-> "update", name |-> Visitor, old |-> OwnNS,
               new |-> NoLabel]
    /\ ppc = "idle"
    /\ nsEvents = <<>>
    /\ nsExists[Visitor]
    /\ nsLabel[Visitor] = NoLabel

\* a pass that found the namespace outside the managed set returns success
ReconciledAgain ==
    /\ rpc = "reconcileDeployments"
    /\ rpc' = "idle"
    /\ incidents' = incidents
    /\ Visitor \notin Range(managed)

\* the Role/RoleBinding pairs of the Instance in a namespace
PairsOf(rs, bs, ns) == {o \in rs \cup bs : o = <<ns, OwnNS>>}

C32_LaterPassCreatesNothing ==
    [][(RemovalHandled /\ rpc # "idle" /\ Visitor \notin Range(managed)) =>
          PairsOf(roles', roleBindings', Visitor)
             \subseteq PairsOf(roles, roleBindings, Visitor)]_vars

(***************************************************************************)
(* The lifecycle under fair scheduling: the worker goes on with a pass it  *)
(* started and takes the key when it is queued, the event handler filters  *)
(* every event it was sent and finishes the cleanup it started, and the    *)
(* periodic resync queues the key again and again.                         *)
(***************************************************************************)
WorkerAction ==
    \/ Reconcile
    \/ addDeletionFinalizer
    \/ setManagedNamespaces
    \/ reconcileRoles
    \/ reconcileRoleBindings
    \/ reconcileServiceAccounts
    \/ reconcileSecrets
    \/ reconcileDeployments
    \/ PassDeleteRoles
    \/ PassDeleteRoleBindings
    \/ PassDeleteFromSecret
    \/ removeManagedByLabelFromNamespaces
    \/ deleteClusterRoles
    \/ deleteClusterRoleBindings
    \/ removeDeletionFinalizer

WatchAction ==
    \/ UpdateFunc
    \/ DeleteFunc
    \/ initK8sClient
    \/ PredicateDeleteRoles
    \/ PredicateDeleteRoleBindings
    \/ PredicateDeleteFromSecret

SpecFair ==
    /\ Spec
    /\ WF_vars(WorkerAction)
    /\ WF_vars(WatchAction)
    /\ WF_vars(Resync)

\* the namespace exists and does not carry the label of the Instance
LabelLost(ns) == nsExists[ns] /\ nsLabel[ns] # OwnNS

\* nothing of the Instance is left for the namespace: no Role or RoleBinding
\* in it, and the cluster secret of the Instance does not list it
NothingLeft(ns) ==
    /\ PairsOf(roles, roleBindings, ns) = {}
    /\ Str(ns) \notin SecretEntries(secrets, OwnNS)

C34_SecretEntryEventuallyGone ==
    (LabelLost(Visitor) /\ inst.exists /\ ~inst.deleting)
       ~> \/ Str(Visitor) \notin SecretEntries(secrets, OwnNS)
          \/ ~LabelLost(Visitor)
          \/ ~inst.exists \/ inst.deleting

=============================================================================
